---- MODULE Spec2Model ----
(***************************************************************************)
(* State-machine model of SpecCleanse: the orphan analyzer and deep        *)
(* cleaner (deep_cleaner.py), the style cleaner (style_cleaner.py), the    *)
(* detection engine (detection.py) and the content processor               *)
(* (processor.py).                                                         *)
(*                                                                         *)
(* Text values whose characters the code inspects (relationship types,     *)
(* targets, media paths, bookmark names) are tuples of one-character       *)
(* strings; identifiers that are only compared for equality are strings.   *)
(* Confidences are integers in tenths (0.5 is 5, 1.0 is 10).               *)
(***************************************************************************)
EXTENDS Integers, Sequences, FiniteSets, TLC

VARIABLES
    parts,       \* the extracted container (extract_dir): the Part Store
    analyzer,    \* the OrphanAnalyzer instance: tracking sets and its report
    pc,          \* position of the running operation
    expanded,    \* OrphanAnalyzer._resolve_style_dependencies: local `expanded`
    iterations,  \* OrphanAnalyzer._resolve_style_dependencies: local `iterations`
    tool,        \* which closure implementation runs (closure specification)
    sc,          \* StyleCleaner.analyze locals: defined_styles, all_used, changed, result
    cleaner,     \* the DeepCleaner instance: the report it was given, its flags, its result
    history,     \* what earlier operations returned and saw (for stating properties)
    det,         \* detection engine / processor call: its inputs and what it returned
    cli          \* one command-line run (main): its arguments, temp directory, output, exit

vars == <<parts, analyzer, pc, expanded, iterations, tool, sc, cleaner, history, det, cli>>

(***************************************************************************)
(* Bounds of the model.                                                    *)
(***************************************************************************)
MaxEdges == 2      \* based-on/next/link edges in a small style graph
MaxChain == 101    \* longest based-on chain (in hops) of a chain style graph
MaxRels == 2       \* relationships declared in word/_rels/document.xml.rels
MaxChildren == 2   \* child elements of the paragraph of a generated document
MaxAnalyzeRuns == 2 \* analyze() calls on one OrphanAnalyzer instance
MaxParaRuns == 2   \* runs of a paragraph handed to the processor
MaxParas == 2      \* paragraphs of a part handed to the content-removal pass

(***************************************************************************)
(* Character-level text helpers (Python str methods used by the code).     *)
(***************************************************************************)
UpperChars == <<"A","B","C","D","E","F","G","H","I","J","K","L","M","N","O","P","Q","R","S","T","U","V","W","X","Y","Z">>
LowerChars == <<"a","b","c","d","e","f","g","h","i","j","k","l","m","n","o","p","q","r","s","t","u","v","w","x","y","z">>

\* str.lower() on one character
LowerChar(c) ==
    IF \E i \in DOMAIN UpperChars : UpperChars[i] = c
    THEN LowerChars[CHOOSE i \in DOMAIN UpperChars : UpperChars[i] = c]
    ELSE c

\* str.lower()
ToLower(s) == [i \in DOMAIN s |-> LowerChar(s[i])]

\* Python `sub in s` on strings
Contains(sub, s) ==
    \E i \in 0..(Len(s) - Len(sub)) : SubSeq(s, i + 1, i + Len(sub)) = sub

\* str.startswith
StartsWith(s, pre) ==
    Len(pre) <= Len(s) /\ SubSeq(s, 1, Len(pre)) = pre

\* str.endswith
EndsWith(s, suf) ==
    Len(suf) <= Len(s) /\ SubSeq(s, Len(s) - Len(suf) + 1, Len(s)) = suf

\* s.split('/')[-1]
LastSegment(s) ==
    LET slashes == {i \in DOMAIN s : s[i] = "/"}
    IN  IF slashes = {} THEN s
        ELSE SubSeq(s, (CHOOSE i \in slashes : \A j \in slashes : j <= i) + 1, Len(s))

Range(f) == {f[x] : x \in DOMAIN f}

RECURSIVE SetToSeq(_)
SetToSeq(S) ==
    IF S = {} THEN <<>>
    ELSE LET x == CHOOSE y \in S : TRUE IN <<x>> \o SetToSeq(S \ {x})

(***************************************************************************)
(* Document tree (word/document.xml): a body of paragraphs; a paragraph    *)
(* has an optional pStyle and children (runs, bookmark markers, proofErr); *)
(* a run has an optional rPr and child elements.                           *)
(***************************************************************************)
NoRPr == [has |-> FALSE, rStyle |-> "", i |-> FALSE, vanish |-> FALSE, color |-> ""]

\* <w:rPr><w:rStyle w:val=s/></w:rPr>
RPrStyle(s) == [has |-> TRUE, rStyle |-> s, i |-> FALSE, vanish |-> FALSE, color |-> ""]

\* children of a run
TextKid(tokens) == [tag |-> "t", text |-> tokens, embed |-> ""]
DrawingKid(rid) == [tag |-> "drawing", text |-> <<>>, embed |-> rid]
OtherKid(tagname) == [tag |-> tagname, text |-> <<>>, embed |-> ""]

\* children of a paragraph
Run(rpr, kids) == [tag |-> "r", rPr |-> rpr, kids |-> kids, name |-> <<>>, id |-> ""]
BookmarkStart(name, id) == [tag |-> "bookmarkStart", rPr |-> NoRPr, kids |-> <<>>, name |-> name, id |-> id]
BookmarkEnd(id) == [tag |-> "bookmarkEnd", rPr |-> NoRPr, kids |-> <<>>, name |-> <<>>, id |-> id]

ProofErr == [tag |-> "proofErr", rPr |-> NoRPr, kids |-> <<>>, name |-> <<>>, id |-> ""]

\* <w:hyperlink> holding runs
Hyperlink(runs) == [tag |-> "hyperlink", rPr |-> NoRPr, kids |-> runs, name |-> <<>>, id |-> ""]

\* <w:p> carrying `rsids` w:rsid* attributes; `tail` is the text between its end
\* tag and the next element (lxml's elem.tail)
ParaRsid(pStyle, rsids, children) ==
    [pStyle |-> pStyle, rsids |-> rsids, children |-> children, tail |-> <<>>]
ParaTail(pStyle, children, tail) ==
    [pStyle |-> pStyle, rsids |-> 0, children |-> children, tail |-> tail]
Para(pStyle, children) == ParaRsid(pStyle, 0, children)

\* word/settings.xml: the children of <w:compat> and the proof-state elements
NoSettings == [exists |-> FALSE, compat |-> <<>>, proof |-> <<>>]

\* a container: [Content_Types].xml, the .rels parts, word/styles.xml, word/media/,
\* word/document.xml, word/theme/theme1.xml (its <a:font> entries), word/settings.xml
Store(rels, styles, media, document, theme, settings, content_types) ==
    [rels |-> rels, styles |-> styles, media |-> media, document |-> document,
     theme |-> theme, settings |-> settings, content_types |-> content_types]

(***************************************************************************)
(* Insertion-ordered dicts (Python dict): a sequence of entries, each with *)
(* a `key` field; assigning an existing key keeps its place.               *)
(***************************************************************************)
\* d.update(items): each item is assigned in order, d[item.key] = item
DictUpdate(d, items) ==
    LET last(k) == items[CHOOSE i \in DOMAIN items :
                           /\ items[i].key = k
                           /\ \A j \in DOMAIN items : j > i => items[j].key # k]
        itemKeys == {items[i].key : i \in DOMAIN items}
        oldKeys == {d[i].key : i \in DOMAIN d}
        kept == [i \in DOMAIN d |-> IF d[i].key \in itemKeys THEN last(d[i].key) ELSE d[i]]
        idx == [i \in DOMAIN items |-> i]
        fresh == SelectSeq(idx, LAMBDA i :
                    /\ items[i].key \notin oldKeys
                    /\ \A j \in DOMAIN items : j < i => items[j].key # items[i].key)
    IN  kept \o [n \in DOMAIN fresh |-> last(items[fresh[n]].key)]

DictKeys(d) == {d[i].key : i \in DOMAIN d}

DictGet(d, k) == d[CHOOSE i \in DOMAIN d : d[i].key = k]

RECURSIVE Flatten(_)
Flatten(ss) == IF ss = <<>> THEN <<>> ELSE Head(ss) \o Flatten(Tail(ss))

(***************************************************************************)
(* Text constants of the container format.                                 *)
(***************************************************************************)
RelTypeNs == <<"h","t","t","p",":","/","/","s","c","h","e","m","a","s",".","o","p","e","n","x","m","l","f","o","r","m","a","t","s",".","o","r","g","/","o","f","f","i","c","e","D","o","c","u","m","e","n","t","/","2","0","0","6","/","r","e","l","a","t","i","o","n","s","h","i","p","s","/">>

T_styles == <<"s","t","y","l","e","s">>
T_settings == <<"s","e","t","t","i","n","g","s">>
T_fontTable == <<"f","o","n","t","T","a","b","l","e">>
T_numbering == <<"n","u","m","b","e","r","i","n","g">>
T_webSettings == <<"w","e","b","S","e","t","t","i","n","g","s">>
T_theme == <<"t","h","e","m","e">>
T_footnotes == <<"f","o","o","t","n","o","t","e","s">>
T_endnotes == <<"e","n","d","n","o","t","e","s">>
T_hyperlink == <<"h","y","p","e","r","l","i","n","k">>
T_image == <<"i","m","a","g","e">>

\* the type URI of a relationship whose local name is `local`
RelType(local) == RelTypeNs \o local

S_media == <<"m","e","d","i","a","/">>
S_word == <<"w","o","r","d","/">>
F_a_png == <<"a",".","p","n","g">>
F_b_png == <<"b",".","p","n","g">>
F_styles_xml == <<"s","t","y","l","e","s",".","x","m","l">>
F_fontTable_xml == <<"f","o","n","t","T","a","b","l","e",".","x","m","l">>
F_url == <<"h","t","t","p",":","/","/","x">>

DocumentRels == "word/_rels/document.xml.rels"

RIdName(i) == "rId" \o ToString(i)

\* values a relationship-id attribute takes: those for which startswith('rId') holds
RIdValues == {RIdName(i) : i \in 1..(MaxRels + 1)}
StartsWithRId(v) == v \in RIdValues

(***************************************************************************)
(* OrphanAnalyzer.                                                         *)
(***************************************************************************)
max_iterations == 100

builtin_required == {"Normal", "DefaultParagraphFont", "TableNormal", "NoList"}

essential_types == <<T_styles, T_settings, T_fontTable, T_numbering, T_webSettings, T_theme, T_footnotes, T_endnotes>>

NewOrphanReport ==
    [orphaned_relationships |-> <<>>,
     orphaned_media |-> <<>>,
     orphaned_styles |-> <<>>,
     rsid_attributes |-> <<>>,
     empty_elements |-> <<>>,
     non_english_font_mappings |-> <<>>,
     compatibility_settings |-> <<>>,
     internal_bookmarks |-> <<>>,
     proof_state_elements |-> <<>>,
     total_relationships_defined |-> 0,
     total_relationships_used |-> 0,
     total_styles_defined |-> 0,
     total_styles_used |-> 0,
     total_media_files |-> 0,
     total_media_referenced |-> 0,
     total_rsid_attributes |-> 0,
     total_empty_elements |-> 0,
     estimated_savings_bytes |-> 0]

\* OrphanAnalyzer.__init__
NewOrphanAnalyzer ==
    [defined_rids |-> <<>>,
     used_rids |-> {},
     defined_styles |-> <<>>,
     used_styles |-> {},
     defined_media |-> <<>>,
     rsid_counts |-> <<>>,
     non_english_scripts |-> <<>>,
     compat_settings |-> <<>>,
     internal_bookmarks |-> <<>>,
     proof_elements |-> <<>>,
     report |-> NewOrphanReport]

\* rglob('*.rels'): the relationship parts, in directory order
RelsFileOrder == <<"_rels/.rels", "word/_rels/document.xml.rels", "word/_rels/header1.xml.rels">>

RelInfo(source_file, rel) ==
    [key |-> <<source_file, rel.Id>>,
     rId |-> rel.Id,
     target |-> rel.Target,
     type |-> rel.Type,
     target_mode |-> rel.TargetMode,
     source_file |-> source_file]

\* _collect_defined_relationships
CollectDefinedRelationships(an, p) ==
    LET files == SelectSeq(RelsFileOrder, LAMBDA f : f \in DOMAIN p.rels)
        items == Flatten([k \in DOMAIN files |->
                    [r \in DOMAIN p.rels[files[k]] |-> RelInfo(files[k], p.rels[files[k]][r])]])
        defined == DictUpdate(an.defined_rids, items)
    IN  [an EXCEPT !.defined_rids = defined,
                   !.report.total_relationships_defined = Len(defined)]

\* deps of one <w:style>: the truthy ones among basedOn, next, link
StyleDeps(st) == {d \in {st.basedOn, st.next, st.link} : d # ""}

\* _collect_defined_styles: _defined_styles and _style_dependencies, one entry per id
CollectDefinedStyles(an, p) ==
    LET items == [i \in DOMAIN p.styles |->
                    [key |-> p.styles[i].styleId, deps |-> StyleDeps(p.styles[i])]]
        defined == DictUpdate(an.defined_styles, items)
    IN  [an EXCEPT !.defined_styles = defined,
                   !.report.total_styles_defined = Len(defined)]

\* _collect_defined_media
CollectDefinedMedia(an, p) ==
    IF p.media = <<>> THEN an
    ELSE LET items == [i \in DOMAIN p.media |-> [key |-> p.media[i].path, size |-> p.media[i].size]]
             defined == DictUpdate(an.defined_media, items)
         IN  [an EXCEPT !.defined_media = defined,
                        !.report.total_media_files = Len(defined)]

\* values of the attributes whose name holds 'id' or 'embed', over root.iter()
DocIdAttrValues(document) ==
    UNION {UNION {{document[p].children[c].id}
                    \cup {document[p].children[c].kids[k].embed :
                            k \in DOMAIN document[p].children[c].kids} :
                  c \in DOMAIN document[p].children} :
           p \in DOMAIN document}

\* w:val of the pStyle / rStyle elements met by root.iter()
DocStyleRefs(document) ==
    {document[p].pStyle : p \in DOMAIN document}
    \cup UNION {{document[p].children[c].rPr.rStyle : c \in DOMAIN document[p].children} :
                p \in DOMAIN document}

\* _scan_xml_for_references
ScanXmlForReferences(an, document, source_rels_file) ==
    LET rids == {v \in DocIdAttrValues(document) : StartsWithRId(v)}
    IN  [an EXCEPT !.used_rids = @ \cup {<<source_rels_file, v>> : v \in rids}
                                   \cup {<<"", v>> : v \in rids},
                   !.used_styles = @ \cup {s \in DocStyleRefs(document) : s # ""}]

\* _scan_document_for_usage
ScanDocumentForUsage(an, p) == ScanXmlForReferences(an, p.document, DocumentRels)

\* _style_dependencies as a lookup table
DepsOf(defined_styles) ==
    [id \in DictKeys(defined_styles) |-> DictGet(defined_styles, id).deps]

\* the loop condition of _resolve_style_dependencies
ResolveGuard(exp, iters) == exp /\ iters < max_iterations

\* new_styles of one iteration of the while loop
NewStyles(used, deps) ==
    {dep \in UNION {deps[s] : s \in used \cap DOMAIN deps} : dep # "" /\ dep \notin used}

RECURSIVE ResolveLoop(_, _, _, _)
ResolveLoop(used, deps, exp, iters) ==
    IF ResolveGuard(exp, iters)
    THEN LET new == NewStyles(used, deps)
         IN  ResolveLoop(used \cup new, deps, new # {}, iters + 1)
    ELSE used

\* the end of _resolve_style_dependencies: the built-ins, then the count
MarkBuiltins(an) ==
    LET used == an.used_styles \cup builtin_required
    IN  [an EXCEPT !.used_styles = used, !.report.total_styles_used = Cardinality(used)]

\* _resolve_style_dependencies
ResolveStyleDependencies(an) ==
    MarkBuiltins([an EXCEPT !.used_styles =
                     ResolveLoop(an.used_styles, DepsOf(an.defined_styles), TRUE, 0)])

\* is_essential of _compute_orphaned_relationships
IsEssentialType(type) ==
    \E t \in Range(essential_types) : Contains(t, ToLower(type))

\* _compute_orphaned_relationships
ComputeOrphanedRelationships(an) ==
    LET orphan(info) == /\ ~(info.key \in an.used_rids \/ <<"", info.rId>> \in an.used_rids)
                        /\ ~IsEssentialType(info.type)
        found == SelectSeq(an.defined_rids, orphan)
        entries == [i \in DOMAIN found |->
                      [rId |-> found[i].rId,
                       target |-> found[i].target,
                       type |-> LastSegment(found[i].type),
                       target_mode |-> found[i].target_mode,
                       source_file |-> found[i].source_file]]
    IN  [an EXCEPT !.report.orphaned_relationships = @ \o entries,
                   !.report.total_relationships_used = Cardinality(an.used_rids)]

\* _compute_orphaned_styles
ComputeOrphanedStyles(an) ==
    LET found == SelectSeq(an.defined_styles, LAMBDA e : e.key \notin an.used_styles)
    IN  [an EXCEPT !.report.orphaned_styles = @ \o [i \in DOMAIN found |-> found[i].key]]

\* referenced_media of _compute_orphaned_media
ReferencedMedia(defined_rids) ==
    {IF StartsWith(defined_rids[i].target, S_media)
     THEN S_word \o defined_rids[i].target
     ELSE defined_rids[i].target :
        i \in {j \in DOMAIN defined_rids :
                 \/ StartsWith(defined_rids[j].target, S_media)
                 \/ Contains(S_media, defined_rids[j].target)}}

\* is_referenced of _compute_orphaned_media
IsReferencedMedia(path, referenced) ==
    \E ref \in referenced : EndsWith(path, LastSegment(ref))

\* _compute_orphaned_media
ComputeOrphanedMedia(an) ==
    LET referenced == ReferencedMedia(an.defined_rids)
        found == SelectSeq(an.defined_media, LAMBDA m : ~IsReferencedMedia(m.key, referenced))
    IN  [an EXCEPT !.report.orphaned_media =
                       @ \o [i \in DOMAIN found |-> [path |-> found[i].key, size_bytes |-> found[i].size]],
                   !.report.total_media_referenced = Cardinality(referenced)]

\* the tags that make a run count as having content (scanner and remover alike)
content_tags == {"t", "drawing", "pict", "sym", "tab", "br", "cr", "fldChar", "instrText", "object", "ruby"}

\* root.iter(w:r) over word/document.xml, in document order
DocRuns(document) ==
    Flatten([p \in DOMAIN document |-> SelectSeq(document[p].children, LAMBDA c : c.tag = "r")])

RECURSIVE SumSeq(_)
SumSeq(ns) == IF ns = <<>> THEN 0 ELSE Head(ns) + SumSeq(Tail(ns))

\* _scan_for_rsids: the w:rsid* attributes are those of the paragraphs of word/document.xml
ScanForRsids(an, p) ==
    LET matches == SumSeq([i \in DOMAIN p.document |-> p.document[i].rsids])
        counts == IF matches > 0
                  THEN DictUpdate(an.rsid_counts, <<[key |-> "word/document.xml", count |-> matches]>>)
                  ELSE an.rsid_counts
    IN  [an EXCEPT !.rsid_counts = counts,
                   !.report.rsid_attributes = counts,
                   !.report.total_rsid_attributes = matches]

\* has_content of _scan_for_empty_elements
ScanHasContent(run) == \E k \in DOMAIN run.kids : run.kids[k].tag \in content_tags

\* len(rpr) == 0 for an <w:rPr> that is present
EmptyRPr(rpr) == rpr.has /\ rpr.rStyle = "" /\ ~rpr.i /\ ~rpr.vanish /\ rpr.color = ""

\* _scan_for_empty_elements (word/document.xml is the scanned part that exists)
ScanForEmptyElements(an, p) ==
    LET runs == DocRuns(p.document)
        empty_runs == Len(SelectSeq(runs, LAMBDA r : ~ScanHasContent(r)))
        empty_rPr == Len(SelectSeq(runs, LAMBDA r : EmptyRPr(r.rPr)))
        file_empties ==
            (IF empty_runs > 0
             THEN <<[file |-> "word/document.xml", element |-> "empty_runs", count |-> empty_runs]>>
             ELSE <<>>)
            \o (IF empty_rPr > 0
                THEN <<[file |-> "word/document.xml", element |-> "empty_rPr", count |-> empty_rPr]>>
                ELSE <<>>)
    IN  [an EXCEPT !.report.empty_elements = @ \o file_empties,
                   !.report.total_empty_elements = empty_runs + empty_rPr]

keep_scripts == {<<"l","a","t","i","n">>, <<"e","a">>, <<"c","s">>}

\* _scan_theme_for_non_english
ScanThemeForNonEnglish(an, p) ==
    LET found == SelectSeq(p.theme, LAMBDA f : f.script # <<>> /\ ToLower(f.script) \notin keep_scripts)
        scripts == an.non_english_scripts
                   \o [i \in DOMAIN found |->
                         [file |-> "word/theme/theme1.xml", script |-> found[i].script,
                          typeface |-> found[i].typeface]]
    IN  [an EXCEPT !.non_english_scripts = scripts,
                   !.report.non_english_font_mappings = scripts]

N_overrideTableStyle == <<"o","v","e","r","r","i","d","e","T","a","b","l","e","S","t","y","l","e","F","o","n","t","S","i","z","e","A","n","d","J","u","s","t","i","f","i","c","a","t","i","o","n">>

\* the keys of removable_compat in _scan_for_compatibility_settings
removable_compat == {"compatSetting", "useFELayout", "useWord2002TableStyleRules", "growAutofit", "useWord97LineBreakRules"}

\* _scan_for_compatibility_settings
ScanForCompatibilitySettings(an, p) ==
    IF ~p.settings.exists THEN an
    ELSE LET listed(c) == IF c.tag = "compatSetting"
                          THEN ~Contains(N_overrideTableStyle, c.name)
                          ELSE c.tag \in removable_compat
             found == SelectSeq(p.settings.compat, listed)
             settings == an.compat_settings
                         \o [i \in DOMAIN found |-> [setting |-> found[i].tag, name |-> found[i].name]]
         IN  [an EXCEPT !.compat_settings = settings,
                        !.report.compatibility_settings = settings]

internal_prefixes == <<<<"_","G","o","B","a","c","k">>, <<"_","R","e","f">>, <<"_","T","o","c">>, <<"_","H","l","k">>, <<"_","P","i","c","t","u","r","e","B","u","l","l","e","t","s">>>>

IsInternalName(name) == \E i \in DOMAIN internal_prefixes : StartsWith(name, internal_prefixes[i])

\* root.iter(w:bookmarkStart) over word/document.xml, in document order
DocBookmarkStarts(document) ==
    Flatten([p \in DOMAIN document |->
                SelectSeq(document[p].children, LAMBDA c : c.tag = "bookmarkStart")])

\* _scan_for_internal_bookmarks
ScanForInternalBookmarks(an, p) ==
    LET found == SelectSeq(DocBookmarkStarts(p.document), LAMBDA b : IsInternalName(b.name))
        reason(name) == IF name = internal_prefixes[1] THEN "Cursor position bookmark"
                        ELSE IF StartsWith(name, internal_prefixes[4]) THEN "Hyperlink anchor bookmark"
                        ELSE "Internal Word bookmark"
        bookmarks == an.internal_bookmarks
                     \o [i \in DOMAIN found |-> [name |-> found[i].name, reason |-> reason(found[i].name)]]
    IN  [an EXCEPT !.internal_bookmarks = bookmarks,
                   !.report.internal_bookmarks = bookmarks]

\* _scan_for_proof_state
ScanForProofState(an, p) ==
    IF ~p.settings.exists THEN an
    ELSE LET in_settings == SelectSeq(p.settings.proof,
                                      LAMBDA t : t \in {"proofState", "proofErr", "noProof"})
             in_document == Flatten([i \in DOMAIN p.document |->
                                SelectSeq(p.document[i].children, LAMBDA c : c.tag = "proofErr")])
             elements == an.proof_elements
                         \o [i \in DOMAIN in_settings |->
                               [element |-> in_settings[i], file |-> "word/settings.xml"]]
                         \o [i \in DOMAIN in_document |->
                               [element |-> "proofErr", file |-> "word/document.xml"]]
         IN  [an EXCEPT !.proof_elements = elements,
                        !.report.proof_state_elements = elements]

\* _calculate_savings
CalculateSavings(an) ==
    LET r == an.report
    IN  [an EXCEPT !.report.estimated_savings_bytes =
            SumSeq([i \in DOMAIN r.orphaned_media |-> r.orphaned_media[i].size_bytes])
            + Len(r.orphaned_relationships) * 200
            + Len(r.orphaned_styles) * 500
            + r.total_rsid_attributes * 25
            + r.total_empty_elements * 20
            + Len(r.non_english_font_mappings) * 60
            + Len(r.compatibility_settings) * 50
            + Len(r.internal_bookmarks) * 80
            + Len(r.proof_state_elements) * 40]

\* OrphanAnalyzer.analyze: phases 1 to 6 (the stores hold no fontTable.xml,
\* numbering.xml, header, footer, footnotes or endnotes part, so the collectors and
\* scans of those parts find nothing)
analyze(an, p) ==
    LET collected == CollectDefinedMedia(
                       CollectDefinedStyles(CollectDefinedRelationships(an, p), p), p)
        scanned == ScanDocumentForUsage(collected, p)
        resolved == ResolveStyleDependencies(scanned)
        computed == ComputeOrphanedMedia(
                      ComputeOrphanedStyles(ComputeOrphanedRelationships(resolved)))
        cruft == ScanForProofState(
                   ScanForInternalBookmarks(
                     ScanForCompatibilitySettings(
                       ScanThemeForNonEnglish(
                         ScanForEmptyElements(ScanForRsids(computed, p), p), p), p), p), p)
    IN  CalculateSavings(cruft)

(***************************************************************************)
(* DeepCleaner. Each removal maps a cleaner state [parts, result] to the    *)
(* next one; the orphan report is the one the cleaner was constructed with. *)
(***************************************************************************)
NewDeepCleanResult ==
    [success |-> FALSE,
     relationships_removed |-> 0,
     media_removed |-> 0,
     styles_removed |-> 0,
     rsids_removed |-> 0,
     empty_elements_removed |-> 0,
     font_mappings_removed |-> 0,
     compat_settings_removed |-> 0,
     bookmarks_removed |-> 0,
     proof_elements_removed |-> 0,
     bytes_saved |-> 0,
     errors |-> <<>>,
     warnings |-> <<>>]

\* _remove_orphaned_media
RemoveOrphanedMedia(st, report) ==
    LET paths == {report.orphaned_media[i].path : i \in DOMAIN report.orphaned_media}
        gone == SelectSeq(st.parts.media, LAMBDA m : m.path \in paths)
    IN  [parts |-> [st.parts EXCEPT !.media = SelectSeq(@, LAMBDA m : m.path \notin paths)],
         result |-> [st.result EXCEPT
                        !.media_removed = @ + Len(gone),
                        !.bytes_saved = @ + SumSeq([i \in DOMAIN gone |-> gone[i].size])]]

\* _remove_orphaned_relationships
RemoveOrphanedRelationships(st, report) ==
    LET orphans == report.orphaned_relationships
        rids(source) == {orphans[i].rId : i \in {j \in DOMAIN orphans : orphans[j].source_file = source}}
        rels == st.parts.rels
        removed(source) == Len(SelectSeq(rels[source], LAMBDA rel : rel.Id \in rids(source)))
    IN  [parts |-> [st.parts EXCEPT !.rels =
                      [source \in DOMAIN rels |->
                          SelectSeq(rels[source], LAMBDA rel : rel.Id \notin rids(source))]],
         result |-> [st.result EXCEPT !.relationships_removed =
                      @ + SumSeq([i \in DOMAIN RelsFileOrder |->
                                    IF RelsFileOrder[i] \in DOMAIN rels
                                    THEN removed(RelsFileOrder[i]) ELSE 0])]]

\* _remove_orphaned_styles
RemoveOrphanedStyles(st, report) ==
    LET orphan_ids == {report.orphaned_styles[i] : i \in DOMAIN report.orphaned_styles}
        removed == Len(SelectSeq(st.parts.styles, LAMBDA style : style.styleId \in orphan_ids))
    IN  IF report.orphaned_styles = <<>> \/ removed = 0 THEN st
        ELSE [parts |-> [st.parts EXCEPT !.styles =
                            SelectSeq(@, LAMBDA style : style.styleId \notin orphan_ids)],
              result |-> [st.result EXCEPT !.styles_removed = removed]]

\* _strip_rsids
StripRsids(st) ==
    LET total_removed == SumSeq([i \in DOMAIN st.parts.document |-> st.parts.document[i].rsids])
    IN  [parts |-> [st.parts EXCEPT !.document =
                      [i \in DOMAIN @ |-> [@[i] EXCEPT !.rsids = 0]]],
         result |-> [st.result EXCEPT !.rsids_removed = total_removed,
                                      !.bytes_saved = @ + total_removed * 25]]

\* has_content of _remove_empty_elements
RemoveHasContent(run) ==
    \E k \in DOMAIN run.kids :
        \/ run.kids[k].tag \in content_tags
        \/ (run.kids[k].tag = "t" /\ run.kids[k].text # <<>>)

\* _remove_empty_elements (word/document.xml is the listed part that exists)
RemoveEmptyElements(st) ==
    LET doomed(c) == c.tag = "r" /\ ~RemoveHasContent(c)
        document == st.parts.document
        total_removed == SumSeq([i \in DOMAIN document |->
                                   Len(SelectSeq(document[i].children, doomed))])
    IN  [parts |-> [st.parts EXCEPT !.document =
                      [i \in DOMAIN document |->
                          [document[i] EXCEPT !.children = SelectSeq(@, LAMBDA c : ~doomed(c))]]],
         result |-> [st.result EXCEPT !.empty_elements_removed = total_removed,
                                      !.bytes_saved = @ + total_removed * 20]]

\* _remove_non_english_font_mappings
RemoveNonEnglishFontMappings(st) ==
    LET doomed(f) == ToLower(f.script) \notin (keep_scripts \cup {<<>>})
        total_removed == Len(SelectSeq(st.parts.theme, doomed))
    IN  [parts |-> [st.parts EXCEPT !.theme = SelectSeq(@, LAMBDA f : ~doomed(f))],
         result |-> [st.result EXCEPT !.font_mappings_removed = total_removed,
                                      !.bytes_saved = @ + total_removed * 60]]

removable_tags ==
    {"compatSetting", "useFELayout", "useWord2002TableStyleRules",
     "growAutofit", "useWord97LineBreakRules",
     "doNotUseIndentAsNumberingTabStop", "useAltKinsokuLineBreakRules",
     "allowSpaceOfSameStyleInTable", "doNotSuppressParagraphBorders",
     "doNotAutofitConstrainedTables", "autofitToFirstFixedWidthCell",
     "displayHangulFixedWidth", "splitPgBreakAndParaMark",
     "doNotVertAlignCellWithSp", "doNotBreakConstrainedForcedTable",
     "doNotVertAlignInTxbx", "useAnsiKerningPairs", "cachedColBalance"}

\* _remove_compatibility_settings
RemoveCompatibilitySettings(st) ==
    IF ~st.parts.settings.exists THEN st
    ELSE LET total_removed == Len(SelectSeq(st.parts.settings.compat,
                                            LAMBDA c : c.tag \in removable_tags))
         IN  [parts |-> [st.parts EXCEPT !.settings.compat =
                            SelectSeq(@, LAMBDA c : c.tag \notin removable_tags)],
              result |-> [st.result EXCEPT !.compat_settings_removed = total_removed,
                                           !.bytes_saved = @ + total_removed * 50]]

\* _remove_internal_bookmarks
RemoveInternalBookmarks(st) ==
    LET document == st.parts.document
        starts == DocBookmarkStarts(document)
        bookmark_ids_to_remove ==
            {starts[i].id : i \in {j \in DOMAIN starts : IsInternalName(starts[j].name)}}
        doomed(c) == \/ (c.tag = "bookmarkStart" /\ IsInternalName(c.name))
                     \/ (c.tag = "bookmarkEnd" /\ c.id \in bookmark_ids_to_remove)
        bookmarks_removed == SumSeq([i \in DOMAIN document |->
                                       Len(SelectSeq(document[i].children, doomed))])
    IN  [parts |-> [st.parts EXCEPT !.document =
                      [i \in DOMAIN document |->
                          [document[i] EXCEPT !.children = SelectSeq(@, LAMBDA c : ~doomed(c))]]],
         result |-> [st.result EXCEPT
                        !.bookmarks_removed = bookmarks_removed \div 2,
                        !.bytes_saved = @ + (bookmarks_removed \div 2) * 80]]

\* _remove_proof_state
RemoveProofState(st) ==
    LET document == st.parts.document
        in_settings == IF st.parts.settings.exists
                       THEN Len(SelectSeq(st.parts.settings.proof,
                                          LAMBDA t : t \in {"proofState", "proofErr"}))
                       ELSE 0
        doc_removed == SumSeq([i \in DOMAIN document |->
                                 Len(SelectSeq(document[i].children, LAMBDA c : c.tag = "proofErr"))])
        total_removed == in_settings + doc_removed
    IN  [parts |-> [st.parts EXCEPT
                      !.settings.proof = SelectSeq(@, LAMBDA t : t \notin {"proofState", "proofErr"}),
                      !.document =
                          [i \in DOMAIN document |->
                              [document[i] EXCEPT !.children =
                                  SelectSeq(@, LAMBDA c : c.tag # "proofErr")]]],
         result |-> [st.result EXCEPT !.proof_elements_removed = total_removed,
                                      !.bytes_saved = @ + total_removed * 40]]

\* _validate_structure followed by the bookkeeping of clean()
ValidateStructure(st) ==
    IF ~st.parts.content_types
    THEN [st EXCEPT !.result.errors =
             @ \o <<"Missing [Content_Types].xml", "Document structure validation failed">>]
    ELSE IF "_rels/.rels" \notin DOMAIN st.parts.rels
    THEN [st EXCEPT !.result.errors =
             @ \o <<"Missing _rels/.rels", "Document structure validation failed">>]
    ELSE [st EXCEPT !.result.success = TRUE]

\* the keyword arguments of clean(), all defaulting to True
AllFlags ==
    [remove_relationships |-> TRUE, remove_media |-> TRUE, remove_styles |-> TRUE,
     strip_rsids |-> TRUE, remove_empty_elements |-> TRUE, remove_non_english_fonts |-> TRUE,
     remove_compat_settings |-> TRUE, remove_internal_bookmarks |-> TRUE,
     remove_proof_state |-> TRUE]

\* DeepCleaner.clean: the categories in their fixed order, then the validation
clean(parts0, report, flags) ==
    LET s0 == [parts |-> parts0, result |-> NewDeepCleanResult]
        s1 == IF flags.remove_media THEN RemoveOrphanedMedia(s0, report) ELSE s0
        s2 == IF flags.remove_relationships THEN RemoveOrphanedRelationships(s1, report) ELSE s1
        s3 == IF flags.remove_styles THEN RemoveOrphanedStyles(s2, report) ELSE s2
        s4 == IF flags.strip_rsids THEN StripRsids(s3) ELSE s3
        s5 == IF flags.remove_empty_elements THEN RemoveEmptyElements(s4) ELSE s4
        s6 == IF flags.remove_non_english_fonts THEN RemoveNonEnglishFontMappings(s5) ELSE s5
        s7 == IF flags.remove_compat_settings THEN RemoveCompatibilitySettings(s6) ELSE s6
        s8 == IF flags.remove_internal_bookmarks THEN RemoveInternalBookmarks(s7) ELSE s7
        s9 == IF flags.remove_proof_state THEN RemoveProofState(s8) ELSE s8
    IN  ValidateStructure(s9)

\* DeepCleaner.__init__ has not run
NoDeepCleaner == [orphan_report |-> NewOrphanReport, flags |-> AllFlags, result |-> NewDeepCleanResult]

\* the flags run_deep_clean passes: all operations, or with --only a single one
\* (remove_relationships keeps its default)
only_map ==
    {"remove_media", "remove_styles", "strip_rsids", "remove_empty_elements",
     "remove_non_english_fonts", "remove_compat_settings", "remove_internal_bookmarks",
     "remove_proof_state"}

RunDeepCleanFlags ==
    {AllFlags} \cup {[k \in DOMAIN AllFlags |-> k = "remove_relationships" \/ k = only] : only \in only_map}

NoHistory ==
    [runs |-> 0, last_report |-> <<>>, prev_report |-> <<>>,
     cleaned |-> FALSE, pre_parts |-> <<>>, pre_analyzer |-> <<>>]

\* main() has not been entered
NoRun == [entry |-> "none"]

(***************************************************************************)
(* Detection engine (detection.py) and content processor (processor.py).   *)
(* An element is named by its place: "p" is the paragraph, RunId(i) its     *)
(* i-th child.                                                              *)
(***************************************************************************)
ContentType ==
    {"specifier_note", "copyright", "hidden_text", "specagent", "editorial_artifact", "preserve"}

Detection(content_type, element, confidence) ==
    [content_type |-> content_type, element |-> element, confidence |-> confidence]

RunId(i) == "r" \o ToString(i)

\* DetectionEngine.should_remove, with no regard for preserve detections
ShouldRemoveIgnoringPreserve(detections) ==
    \E i \in DOMAIN detections : detections[i].confidence >= 5

\* DetectionEngine.should_remove
should_remove(detections) ==
    IF \E i \in DOMAIN detections : detections[i].content_type = "preserve"
    THEN FALSE
    ELSE \E i \in DOMAIN detections : detections[i].confidence >= 5

Whitespace == {" ", "\t", "\n", "\r"}

\* str.strip()
Strip(s) ==
    LET solid == {i \in DOMAIN s : s[i] \notin Whitespace}
    IN  IF solid = {} THEN <<>>
        ELSE SubSeq(s, CHOOSE i \in solid : \A j \in solid : i <= j,
                       CHOOSE i \in solid : \A j \in solid : j <= i)

\* DocxProcessor._get_run_text
get_run_text(run) ==
    Flatten([k \in DOMAIN run.kids |-> IF run.kids[k].tag = "t" THEN run.kids[k].text ELSE <<>>])

\* para.iter(w:r): every run inside the paragraph in document order, the runs of
\* a hyperlink included; `id` names the run, `path` is its place
ParaRuns(para) ==
    Flatten([j \in DOMAIN para.children |->
               IF para.children[j].tag = "r"
               THEN <<[id |-> RunId(j), run |-> para.children[j], path |-> <<j>>]>>
               ELSE IF para.children[j].tag = "hyperlink"
               THEN [k \in DOMAIN para.children[j].kids |->
                       [id |-> RunId(j) \o "." \o ToString(k),
                        run |-> para.children[j].kids[k], path |-> <<j, k>>]]
               ELSE <<>>])

\* DocxProcessor._should_remove_paragraph, requiring every run to be detected
ShouldRemoveParagraphAllRuns(para, detections) ==
    IF \E i \in DOMAIN detections : detections[i].content_type = "preserve" THEN FALSE
    ELSE IF \E i \in DOMAIN detections :
                detections[i].element = "p" /\ detections[i].confidence >= 5 THEN TRUE
    ELSE LET runs == ParaRuns(para)
             ids == {runs[n].id : n \in DOMAIN runs}
             detected_runs == {detections[i].element :
                                 i \in {j \in DOMAIN detections :
                                          /\ detections[j].element \in ids
                                          /\ detections[j].confidence >= 5}}
         IN  IF runs = <<>> THEN FALSE
             ELSE \A r \in ids : r \in detected_runs

\* DocxProcessor._should_remove_paragraph
should_remove_paragraph(para, detections) ==
    IF \E i \in DOMAIN detections : detections[i].content_type = "preserve" THEN FALSE
    ELSE IF \E i \in DOMAIN detections :
                detections[i].element = "p" /\ detections[i].confidence >= 5 THEN TRUE
    ELSE LET runs == ParaRuns(para)
             ids == {runs[n].id : n \in DOMAIN runs}
             detected_runs == {detections[i].element :
                                 i \in {j \in DOMAIN detections :
                                          /\ detections[j].element \in ids
                                          /\ detections[j].confidence >= 5}}
             runs_with_text == {runs[n].id : n \in {m \in DOMAIN runs :
                                                      Strip(get_run_text(runs[m].run)) # <<>>}}
         IN  IF runs = <<>> THEN FALSE
             ELSE runs_with_text # {} /\ \A r \in runs_with_text : r \in detected_runs

NoDetection ==
    [para |-> Para("", <<>>), detections |-> <<>>, call |-> "none", returned |-> FALSE,
     disabled |-> {}]

\* the runs a paragraph handed to the processor is made of: with text, with
\* whitespace only, with no text element
ParaRunPool ==
    {Run(NoRPr, <<TextKid(<<"a">>)>>),
     Run(NoRPr, <<TextKid(<<" ">>)>>),
     Run(NoRPr, <<DrawingKid("rId1")>>)}

\* what a detection list holds for one element
ElementDetections(e) ==
    {<<>>,
     <<Detection("specifier_note", e, 5)>>,
     <<Detection("editorial_artifact", e, 4)>>,
     <<Detection("hidden_text", e, 10)>>,
     <<Detection("preserve", e, 10)>>}

\* the paragraphs and, for each, the detection lists in the order _process_paragraph
\* builds them: the paragraph's detections, then each run's
DetectionInputs ==
    UNION {{[para |-> Para("", children),
             detections |-> ds[1] \o Flatten([i \in 1..n |-> ds[i + 1]])] :
              children \in [1..n -> ParaRunPool],
              ds \in {f \in [1..(n + 1) -> UNION {ElementDetections(e) : e \in {"p"} \cup {RunId(i) : i \in 1..n}}] :
                        /\ f[1] \in ElementDetections("p")
                        /\ \A i \in 1..n : f[i + 1] \in ElementDetections(RunId(i))}} :
           n \in 0..MaxParaRuns}

(***************************************************************************)
(* The detectors (detection.py).  A pattern is a literal, searched with    *)
(* re.IGNORECASE; `kind` is the element's tag, "p" or "r".                 *)
(***************************************************************************)
\* the configuration the engine is built from: one section per detector; a
\* section named in det.disabled has `enabled: false`
engine_config ==
    [specifier_notes      |-> [enabled |-> "specifier_notes" \notin det.disabled,
                               text_patterns |-> <<<<"n">>>>, colors |-> {"FF0000"}],
     style_based_detection |-> [style_names |-> {"Note"}],
     copyright_notices    |-> [enabled |-> "copyright_notices" \notin det.disabled,
                               text_patterns |-> <<<<"c">>, <<"r">>>>],
     hidden_text          |-> [enabled |-> "hidden_text" \notin det.disabled],
     specagent_references |-> [enabled |-> "specagent_references" \notin det.disabled,
                               text_patterns |-> <<<<"s">>>>],
     editorial_artifacts  |-> [enabled |-> "editorial_artifacts" \notin det.disabled,
                               text_patterns |-> <<<<"e">>>>],
     preserve_patterns    |-> [enabled |-> "preserve_patterns" \notin det.disabled,
                               text_patterns |-> <<<<"k">>, <<"^", "p", "$">>>>]]

\* the search for a lower-cased literal in lower-cased text, anchored or not; "$"
\* matches at the end of the text or just before a newline that ends it
SearchLiteral(at_start, at_end, literal, t) ==
    IF at_start /\ at_end
    THEN t = literal \/ t = literal \o <<"\n">>
    ELSE IF at_start THEN StartsWith(t, literal)
    ELSE IF at_end THEN EndsWith(t, literal) \/ EndsWith(t, literal \o <<"\n">>)
    ELSE Contains(literal, t)

\* pattern.search(text) for a pattern compiled with re.IGNORECASE | re.DOTALL: a
\* literal, with "^" ahead of it or "$" after it
Search(pattern, text) ==
    SearchLiteral(pattern # <<>> /\ Head(pattern) = "^",
                  pattern # <<>> /\ pattern[Len(pattern)] = "$",
                  ToLower(SelectSeq(pattern, LAMBDA c : c \notin {"^", "$"})),
                  ToLower(text))

\* `for pattern in self.compiled_patterns: if pattern.search(text)`
AnyMatch(patterns, text) == \E i \in DOMAIN patterns : Search(patterns[i], text)

\* str.upper() on the colour values a run carries
ColorUpper(c) == IF c = "ff0000" THEN "FF0000" ELSE c

Min(a, b) == IF a <= b THEN a ELSE b

\* `if confidence >= 0.5: return Detection(..., confidence=confidence)`
EmitUncapped(content_type, id, confidence) ==
    IF confidence >= 5 THEN <<Detection(content_type, id, confidence)>> ELSE <<>>

\* `if confidence >= 0.5: return Detection(..., confidence=min(confidence, 1.0))`
Emit(content_type, id, confidence) ==
    IF confidence >= 5 THEN <<Detection(content_type, id, Min(confidence, 10))>> ELSE <<>>

\* the confidence SpecifierNoteDetector.detect adds up from the formatting of a run
\* or the style of a paragraph
FormattingConfidence(kind, element, colors, style_names) ==
    IF kind = "r"
    THEN (IF element.rPr.has /\ element.rPr.i THEN 2 ELSE 0)
         + (IF /\ element.rPr.has
               /\ element.rPr.color # ""
               /\ ColorUpper(element.rPr.color) \in {ColorUpper(c) : c \in colors}
            THEN 3 ELSE 0)
         + (IF /\ element.rPr.has
               /\ element.rPr.rStyle # ""
               /\ element.rPr.rStyle \in style_names
            THEN 8 ELSE 0)
    ELSE IF element.pStyle # "" /\ element.pStyle \in style_names THEN 8 ELSE 0

\* SpecifierNoteDetector.detect, reporting the sum as it stands
SpecifierNoteDetectUncapped(kind, element, id, text) ==
    IF ~engine_config.specifier_notes.enabled \/ Strip(text) = <<>> THEN <<>>
    ELSE EmitUncapped("specifier_note", id,
              (IF AnyMatch(engine_config.specifier_notes.text_patterns, text) THEN 6 ELSE 0)
              + FormattingConfidence(kind, element, engine_config.specifier_notes.colors,
                                     engine_config.style_based_detection.style_names))

\* SpecifierNoteDetector.detect
SpecifierNoteDetect(kind, element, id, text) ==
    IF ~engine_config.specifier_notes.enabled \/ Strip(text) = <<>> THEN <<>>
    ELSE Emit("specifier_note", id,
              (IF AnyMatch(engine_config.specifier_notes.text_patterns, text) THEN 6 ELSE 0)
              + FormattingConfidence(kind, element, engine_config.specifier_notes.colors,
                                     engine_config.style_based_detection.style_names))

\* the confidence CopyrightDetector.detect adds up from the number of matching patterns
CopyrightConfidence(matches) == 7 * matches + (IF matches >= 2 THEN 2 ELSE 0)

\* CopyrightDetector.detect
CopyrightDetect(kind, element, id, text) ==
    IF ~engine_config.copyright_notices.enabled \/ Strip(text) = <<>> THEN <<>>
    ELSE Emit("copyright", id,
              CopyrightConfidence(Cardinality(
                  {i \in DOMAIN engine_config.copyright_notices.text_patterns :
                      Search(engine_config.copyright_notices.text_patterns[i], text)})))

\* HiddenTextDetector.detect
HiddenTextDetect(kind, element, id, text) ==
    IF ~engine_config.hidden_text.enabled THEN <<>>
    ELSE IF kind = "r" /\ element.rPr.has /\ element.rPr.vanish
         THEN <<Detection("hidden_text", id, 10)>>
    ELSE <<>>

\* SpecAgentDetector.detect
SpecAgentDetect(kind, element, id, text) ==
    IF ~engine_config.specagent_references.enabled \/ Strip(text) = <<>> THEN <<>>
    ELSE IF AnyMatch(engine_config.specagent_references.text_patterns, text)
         THEN <<Detection("specagent", id, 10)>>
    ELSE <<>>

\* EditorialArtifactDetector.detect
EditorialArtifactDetect(kind, element, id, text) ==
    IF ~engine_config.editorial_artifacts.enabled \/ Strip(text) = <<>> THEN <<>>
    ELSE IF AnyMatch(engine_config.editorial_artifacts.text_patterns, text)
         THEN <<Detection("editorial_artifact", id, 8)>>
    ELSE <<>>

\* PreserveDetector.detect
PreserveDetect(kind, element, id, text) ==
    IF ~engine_config.preserve_patterns.enabled \/ Strip(text) = <<>> THEN <<>>
    ELSE IF AnyMatch(engine_config.preserve_patterns.text_patterns, text)
         THEN <<Detection("preserve", id, 10)>>
    ELSE <<>>

\* the detections of the removal detectors, in the order of self.detectors
RemovalDetections(kind, element, id, text) ==
    SpecifierNoteDetect(kind, element, id, text)
       \o CopyrightDetect(kind, element, id, text)
       \o HiddenTextDetect(kind, element, id, text)
       \o SpecAgentDetect(kind, element, id, text)
       \o EditorialArtifactDetect(kind, element, id, text)

\* `if preserve: return [preserve]`, else the list of the removal detectors
PreserveOrElse(preserve, detections) == IF preserve # <<>> THEN preserve ELSE detections

\* DetectionEngine.detect_in_element, the preserve detection put ahead of the others
DetectInElementNoVeto(kind, element, id, text) ==
    PreserveDetect(kind, element, id, text) \o RemovalDetections(kind, element, id, text)

\* DetectionEngine.detect_in_element: the detections of one element, named `id`
detect_in_element(kind, element, id, text) ==
    PreserveOrElse(PreserveDetect(kind, element, id, text),
                   RemovalDetections(kind, element, id, text))

\* DocxProcessor._get_paragraph_text
get_paragraph_text(para) ==
    LET runs == ParaRuns(para)
    IN  Flatten([n \in DOMAIN runs |-> get_run_text(runs[n].run)])

\* DocxProcessor._process_paragraph
process_paragraph(para) ==
    LET para_detections == detect_in_element("p", para, "p", get_paragraph_text(para))
        para_preserve == \E i \in DOMAIN para_detections : para_detections[i].content_type = "preserve"
        runs == ParaRuns(para)
        of_run(n) == IF Strip(get_run_text(runs[n].run)) = <<>> THEN <<>>
                     ELSE detect_in_element("r", runs[n].run, runs[n].id, get_run_text(runs[n].run))
    IN  IF ~should_remove(para_detections) /\ ~para_preserve
        THEN para_detections \o Flatten([n \in DOMAIN runs |-> of_run(n)])
        ELSE para_detections

\* the runs of the part whose parent is not a paragraph: those of the hyperlinks
OutsideRuns(paras) ==
    Flatten([i \in DOMAIN paras |->
        LET runs == ParaRuns(paras[i])
            nested == SelectSeq([n \in DOMAIN runs |-> n], LAMBDA n : Len(runs[n].path) = 2)
        IN  [m \in DOMAIN nested |-> [para |-> i, id |-> runs[nested[m]].id,
                                      run |-> runs[nested[m]].run, path |-> runs[nested[m]].path]]])

\* the two loops of _process_xml_file: what _process_paragraph returns for each
\* paragraph, and what detect_in_element returns for each run whose parent is not
\* a paragraph
ScanFile(paras) ==
    [per_para |-> [i \in DOMAIN paras |-> process_paragraph(paras[i])],
     outside |-> [m \in DOMAIN OutsideRuns(paras) |->
                    detect_in_element("r", OutsideRuns(paras)[m].run, OutsideRuns(paras)[m].id,
                                      get_run_text(OutsideRuns(paras)[m].run))]]

\* the place in the part of the element a paragraph's detection names
Place(paras, i, e) ==
    IF e = "p" THEN <<i>>
    ELSE <<i>> \o ParaRuns(paras[i])[CHOOSE n \in DOMAIN ParaRuns(paras[i]) :
                                        ParaRuns(paras[i])[n].id = e].path

\* a detection with the paragraph it was made under (0 for none) and the place of
\* its element in the part
Located(d, parent_paragraph, node) ==
    [content_type |-> d.content_type, element |-> d.element, confidence |-> d.confidence,
     parent_paragraph |-> parent_paragraph, node |-> node]

\* the detections of _process_xml_file in the order it makes them: each paragraph's,
\* then those of the runs whose parent is not a paragraph (no parent_paragraph)
FileDetections(paras, scan) ==
    Flatten([i \in DOMAIN paras |->
               [j \in DOMAIN scan.per_para[i] |->
                  Located(scan.per_para[i][j], i, Place(paras, i, scan.per_para[i][j].element))]])
    \o Flatten([m \in DOMAIN scan.outside |->
               [j \in DOMAIN scan.outside[m] |->
                  Located(scan.outside[m][j], 0,
                          <<OutsideRuns(paras)[m].para>> \o OutsideRuns(paras)[m].path)]])

\* the paragraphs and the runs _process_xml_file lists in elements_to_remove
ParagraphsToRemove(paras, scan) ==
    {i \in DOMAIN paras : should_remove_paragraph(paras[i], scan.per_para[i])}

RunsToRemove(paras, scan) ==
    {<<OutsideRuns(paras)[m].para>> \o OutsideRuns(paras)[m].path :
        m \in {k \in DOMAIN scan.outside : should_remove(scan.outside[k])}}

\* the paragraph once parent.remove(run) has been called for the listed runs
WithoutRuns(para, i, gone) ==
    [para EXCEPT !.children =
        [j \in DOMAIN para.children |->
            IF para.children[j].tag = "hyperlink"
            THEN LET kept == SelectSeq([k \in DOMAIN para.children[j].kids |-> k],
                                       LAMBDA k : <<i, j, k>> \notin gone)
                 IN  [para.children[j] EXCEPT !.kids =
                         [n \in DOMAIN kept |-> para.children[j].kids[kept[n]]]]
            ELSE para.children[j]]]

\* DocxProcessor._remove_element on the i-th paragraph of the part: its tail goes to
\* the previous sibling's tail or, with no previous sibling, to the parent's text
remove_element(part, i) ==
    LET elem == part.paras[i]
    IN  [text |-> IF i = 1 THEN part.text \o elem.tail ELSE part.text,
         paras |-> [n \in 1..(Len(part.paras) - 1) |->
                      IF n < i - 1 THEN part.paras[n]
                      ELSE IF n = i - 1 THEN [part.paras[n] EXCEPT !.tail = @ \o elem.tail]
                      ELSE part.paras[n + 1]]]

\* `for elem_type, elem in elements_to_remove: self._remove_element(elem, elem_type)`
\* for the paragraphs, named by their places before any removal; `done` counts
\* those already removed
RECURSIVE RemoveParagraphs(_, _, _)
RemoveParagraphs(part, to_remove, done) ==
    IF to_remove = <<>> THEN part
    ELSE RemoveParagraphs(remove_element(part, Head(to_remove) - done), Tail(to_remove), done + 1)

\* the part after the removals of _process_xml_file
AfterRemoval(part, gone, gone_runs) ==
    RemoveParagraphs([text |-> part.text,
                      paras |-> [i \in DOMAIN part.paras |->
                                   WithoutRuns(part.paras[i], i, gone_runs)]],
                     SelectSeq([i \in DOMAIN part.paras |-> i], LAMBDA i : i \in gone), 0)

\* what _process_xml_file returns and leaves on disk, from the result of its loops:
\* `if not dry_run:` the removals and tree.write
FileResult(part, dry_run, scan) ==
    [detections |-> FileDetections(part.paras, scan),
     removed |-> IF dry_run THEN {}
                 ELSE {<<i>> : i \in ParagraphsToRemove(part.paras, scan)}
                         \cup RunsToRemove(part.paras, scan),
     part |-> IF dry_run THEN part
              ELSE AfterRemoval(part, ParagraphsToRemove(part.paras, scan),
                                RunsToRemove(part.paras, scan))]

\* DocxProcessor._process_xml_file that removes and writes whatever dry_run says
ProcessXmlFileAlwaysWrites(part, dry_run) ==
    FileResult(part, FALSE, ScanFile(part.paras))

\* DocxProcessor._process_xml_file on a part (the text ahead of its first paragraph,
\* and its paragraphs): the detections, the elements removed from the tree, and the
\* part as it is left on disk
process_xml_file(part, dry_run) ==
    FileResult(part, dry_run, ScanFile(part.paras))

\* what _process_hf_file returns and leaves on disk, from the detections of each
\* paragraph: parent.remove(elem) for the paragraphs to remove, then tree.write
HfResult(part, dry_run, per_para) ==
    [detections |-> Flatten([i \in DOMAIN part.paras |->
                          [j \in DOMAIN per_para[i] |-> Located(per_para[i][j], 0, <<i>>)]]),
     removed |-> IF dry_run THEN {}
                 ELSE {<<i>> : i \in {j \in DOMAIN part.paras : should_remove(per_para[j])}},
     part |-> IF dry_run THEN part
              ELSE LET kept == SelectSeq([i \in DOMAIN part.paras |-> i],
                                         LAMBDA i : ~should_remove(per_para[i]))
                   IN  [text |-> part.text,
                        paras |-> [n \in DOMAIN kept |-> part.paras[kept[n]]]]]

\* HeaderFooterProcessor._process_hf_file
process_hf_file(part, dry_run) ==
    HfResult(part, dry_run,
             [i \in DOMAIN part.paras |->
                detect_in_element("p", part.paras[i], "p", get_paragraph_text(part.paras[i]))])

\* word/document.xml of a container as a part
DocumentPart(p) == [text |-> <<>>, paras |-> p.document]


(***************************************************************************)
(* StyleCleaner (style_cleaner.py).                                        *)
(***************************************************************************)
PROTECTED_STYLES ==
    {"Normal", "DefaultParagraphFont", "TableNormal", "NoList",
     "Heading1", "Heading2", "Heading3", "Heading4", "Heading5",
     "Heading6", "Heading7", "Heading8", "Heading9",
     "Title", "Subtitle", "ListParagraph", "TOCHeading",
     "TOC1", "TOC2", "TOC3", "TOC4", "TOC5",
     "Header", "Footer", "FootnoteText", "EndnoteText",
     "CommentText", "BalloonText", "Hyperlink"}

\* StyleCleaner._get_defined_styles: style id -> StyleInfo (a style with no id is skipped)
GetDefinedStyles(styles_xml) ==
    LET kept == SelectSeq(styles_xml, LAMBDA st : st.styleId # "")
        d == DictUpdate(<<>>, [i \in DOMAIN kept |->
                [key |-> kept[i].styleId,
                 based_on |-> kept[i].basedOn,
                 linked |-> kept[i].link,
                 next_style |-> kept[i].next,
                 is_default |-> kept[i].default]])
    IN  [id \in DictKeys(d) |-> DictGet(d, id)]

\* StyleCleaner._find_used_styles
FindUsedStyles(p) == {s \in DocStyleRefs(p.document) : s # ""}

\* all_used after one pass of the for loop of _expand_dependencies
ExpandPass(all_used, defined_styles) ==
    all_used \cup
    {d \in UNION {{defined_styles[s].based_on, defined_styles[s].linked, defined_styles[s].next_style} :
                    s \in all_used \cap DOMAIN defined_styles} : d # ""}

\* `changed` after one pass of the for loop of _expand_dependencies (a pass that
\* tests only that a dependency exists, not that it is new)
ChangedIfAnyDependency(all_used, defined_styles) ==
    \E s \in all_used \cap DOMAIN defined_styles :
        {defined_styles[s].based_on, defined_styles[s].linked, defined_styles[s].next_style} # {""}

\* `changed` after one pass of the for loop of _expand_dependencies
ExpandChanged(all_used, defined_styles) ==
    ExpandPass(all_used, defined_styles) # all_used

NewStyleCleanResult ==
    [total_styles |-> 0, used_styles |-> {}, unused_styles |-> {},
     protected_styles |-> {}, removed_styles |-> <<>>, errors |-> <<>>]

\* StyleCleaner.analyze, after _expand_dependencies returned all_used
StyleCleanerResult(defined_styles, all_used) ==
    LET unused0 == DOMAIN defined_styles \ all_used
        unused1 == unused0 \ PROTECTED_STYLES
        defaults == {id \in unused1 : defined_styles[id].is_default}
    IN  [total_styles |-> Cardinality(DOMAIN defined_styles),
         used_styles |-> all_used,
         unused_styles |-> unused1 \ defaults,
         protected_styles |-> (unused0 \cap PROTECTED_STYLES) \cup defaults,
         removed_styles |-> <<>>,
         errors |-> <<>>]

NoStyleCleaner == [defined_styles |-> <<>>, all_used |-> {}, changed |-> FALSE, result |-> NewStyleCleanResult]

(***************************************************************************)
(* Style graphs the closure is run on.                                     *)
(***************************************************************************)
SmallIds == {"Normal", "X", "Y"}
StyleTargets == SmallIds \cup {""}
StyleFields == [basedOn : StyleTargets, next : StyleTargets, link : StyleTargets]

EdgeCount(g) ==
    Cardinality({e \in (DOMAIN g) \X {"basedOn", "next", "link"} : g[e[1]][e[2]] # ""})

SmallGraphs ==
    UNION {{g \in [D -> StyleFields] : EdgeCount(g) <= MaxEdges} : D \in SUBSET SmallIds}

ChainName(i) == "S" \o ToString(i)

\* S0 based on S1 based on ... Sn; with `back`, Sn names S0 as its next style
ChainStyles(n, back) ==
    [i \in 1..(n + 1) |->
        [styleId |-> ChainName(i - 1),
         basedOn |-> IF i <= n THEN ChainName(i) ELSE "",
         next |-> IF i = n + 1 /\ back THEN ChainName(0) ELSE "",
         link |-> "",
         default |-> FALSE]]

GraphStyles(g) ==
    LET ids == SetToSeq(DOMAIN g)
    IN  [i \in DOMAIN ids |->
            [styleId |-> ids[i], basedOn |-> g[ids[i]].basedOn, next |-> g[ids[i]].next,
             link |-> g[ids[i]].link, default |-> FALSE]]

\* a container with the given styles part whose document references the styles of `used`
StyleStore(styles_xml, used) ==
    LET refs == SetToSeq(used)
    IN  Store(<<>>, styles_xml, <<>>, [i \in DOMAIN refs |-> Para(refs[i], <<>>)],
              <<>>, NoSettings, TRUE)

ClosureStores ==
    {StyleStore(GraphStyles(g), used) : g \in SmallGraphs, used \in SUBSET SmallIds}
    \cup {StyleStore(ChainStyles(n, back), {ChainName(0)}) :
            n \in (max_iterations - 1)..MaxChain, back \in BOOLEAN}

(***************************************************************************)
(* Closure specification: the two closure implementations, loop by loop.   *)
(***************************************************************************)
InitClosure ==
    /\ cleaner = NoDeepCleaner
    /\ history = NoHistory
    /\ det = NoDetection
    /\ cli = NoRun
    /\ parts \in ClosureStores
    /\ tool \in {"orphan_analyzer", "style_cleaner"}
    /\ analyzer = NewOrphanAnalyzer
    /\ sc = NoStyleCleaner
    /\ pc = "new"
    /\ expanded = FALSE
    /\ iterations = 0

\* analyze(), phases 1 and 2, and the entry of _resolve_style_dependencies
CollectAndScan ==
    /\ tool = "orphan_analyzer" /\ pc = "new"
    /\ analyzer' = ScanDocumentForUsage(
                      CollectDefinedMedia(
                        CollectDefinedStyles(
                          CollectDefinedRelationships(analyzer, parts), parts), parts), parts)
    /\ expanded' = TRUE
    /\ iterations' = 0
    /\ pc' = "resolve"
    /\ UNCHANGED <<cleaner, history, det, parts, tool, sc, cli>>

\* one iteration of the while loop of _resolve_style_dependencies
ResolveIterate ==
    /\ tool = "orphan_analyzer" /\ pc = "resolve"
    /\ ResolveGuard(expanded, iterations)
    /\ LET new == NewStyles(analyzer.used_styles, DepsOf(analyzer.defined_styles))
       IN  /\ analyzer' = [analyzer EXCEPT !.used_styles = @ \cup new]
           /\ expanded' = (new # {})
    /\ iterations' = iterations + 1
    /\ UNCHANGED <<cleaner, history, det, parts, pc, tool, sc, cli>>

\* the loop ends; the built-ins are marked
ResolveExit ==
    /\ tool = "orphan_analyzer" /\ pc = "resolve"
    /\ ~ResolveGuard(expanded, iterations)
    /\ analyzer' = MarkBuiltins(analyzer)
    /\ pc' = "compute"
    /\ UNCHANGED <<cleaner, history, det, parts, expanded, iterations, tool, sc, cli>>

\* analyze(), phase 4
ComputeOrphans ==
    /\ tool = "orphan_analyzer" /\ pc = "compute"
    /\ analyzer' = ComputeOrphanedMedia(ComputeOrphanedStyles(ComputeOrphanedRelationships(analyzer)))
    /\ pc' = "done"
    /\ UNCHANGED <<cleaner, history, det, parts, expanded, iterations, tool, sc, cli>>

\* StyleCleaner.analyze up to the entry of the while loop of _expand_dependencies
ScStart ==
    /\ tool = "style_cleaner" /\ pc = "new"
    /\ sc' = [defined_styles |-> GetDefinedStyles(parts.styles),
              all_used |-> FindUsedStyles(parts),
              changed |-> TRUE,
              result |-> NewStyleCleanResult]
    /\ pc' = "expand"
    /\ UNCHANGED <<cleaner, history, det, parts, analyzer, expanded, iterations, tool, cli>>

\* one iteration of `while changed`
ScExpandPass ==
    /\ tool = "style_cleaner" /\ pc = "expand"
    /\ sc.changed
    /\ sc' = [sc EXCEPT !.all_used = ExpandPass(sc.all_used, sc.defined_styles),
                        !.changed = ExpandChanged(sc.all_used, sc.defined_styles)]
    /\ UNCHANGED <<cleaner, history, det, parts, analyzer, pc, expanded, iterations, tool, cli>>

\* the loop ends; analyze computes its result
ScFinish ==
    /\ tool = "style_cleaner" /\ pc = "expand"
    /\ ~sc.changed
    /\ sc' = [sc EXCEPT !.result = StyleCleanerResult(sc.defined_styles, sc.all_used)]
    /\ pc' = "done"
    /\ UNCHANGED <<cleaner, history, det, parts, analyzer, expanded, iterations, tool, cli>>

NextClosure ==
    \/ CollectAndScan
    \/ ResolveIterate
    \/ ResolveExit
    \/ ComputeOrphans
    \/ ScStart
    \/ ScExpandPass
    \/ ScFinish

SpecClosure == InitClosure /\ [][NextClosure]_vars

\* the graphs over all of SmallIds, cyclic ones included, each with no style, a
\* built-in style or an ordinary style referenced by the document
TerminationStores ==
    {StyleStore(GraphStyles(g), used) :
        g \in {h \in SmallGraphs : DOMAIN h = SmallIds}, used \in {{}, {"Normal"}, {"X"}}}

InitTermination ==
    /\ cleaner = NoDeepCleaner
    /\ history = NoHistory
    /\ det = NoDetection
    /\ cli = NoRun
    /\ parts \in TerminationStores
    /\ tool \in {"orphan_analyzer", "style_cleaner"}
    /\ analyzer = NewOrphanAnalyzer
    /\ sc = NoStyleCleaner
    /\ pc = "new"
    /\ expanded = FALSE
    /\ iterations = 0

\* each loop iteration is a step of straight-line code: it is always taken
FairSpecClosure == InitTermination /\ [][NextClosure]_vars /\ WF_vars(NextClosure)

(***************************************************************************)
(* Containers the analyzer and the deep cleaner are run on.                *)
(***************************************************************************)
T_officeDocument == <<"o","f","f","i","c","e","D","o","c","u","m","e","n","t">>
F_document_xml == <<"w","o","r","d","/","d","o","c","u","m","e","n","t",".","x","m","l">>
F_xml == <<".","x","m","l">>
N_GoBack == <<"_","G","o","B","a","c","k">>
N_Toc1 == <<"_","T","o","c","1">>
N_Foo == <<"F","o","o">>
N_compatibilityMode == <<"c","o","m","p","a","t","i","b","i","l","i","t","y","M","o","d","e">>
Sc_Jpan == <<"J","p","a","n">>
Sc_Latn == <<"L","a","t","n">>

Rel(id, local, target, mode) ==
    [Id |-> id, Target |-> target, Type |-> RelType(local), TargetMode |-> mode]

\* relationship kinds: type local name, target, target mode
RelKinds ==
    {<<T_hyperlink, F_url, "External">>, <<T_image, S_media \o F_a_png, "Internal">>}
    \cup {<<essential_types[i], essential_types[i] \o F_xml, "Internal">> : i \in DOMAIN essential_types}

\* _rels/.rels
RootRels == <<Rel("rId1", T_officeDocument, F_document_xml, "Internal")>>

RelsParts(document_rels) ==
    [f \in {"_rels/.rels", DocumentRels} |-> IF f = DocumentRels THEN document_rels ELSE RootRels]

DocumentRelsChoices ==
    UNION {{[i \in 1..n |-> Rel(RIdName(i), k[i][1], k[i][2], k[i][3])] : k \in [1..n -> RelKinds]} :
           n \in 0..MaxRels}

MediaA == [path |-> S_word \o S_media \o F_a_png, size |-> 10]
MediaB == [path |-> S_word \o S_media \o F_b_png, size |-> 20]

PlainStyle(id) == [styleId |-> id, basedOn |-> "", next |-> "", link |-> "", default |-> FALSE]

\* relationships against a document that references rId1 from a drawing, or nothing
RelStores ==
    {Store(RelsParts(rels), <<>>, <<MediaA, MediaB>>, <<Para("", children)>>, <<>>, NoSettings, TRUE) :
        rels \in DocumentRelsChoices,
        children \in {<<>>, <<Run(NoRPr, <<DrawingKid("rId1")>>)>>}}

\* the children a generated paragraph is made of
ChildPool ==
    {Run(RPrStyle("X"), <<>>),
     Run(NoRPr, <<TextKid(<<>>)>>),
     Run(NoRPr, <<TextKid(<<"a">>)>>),
     Run(NoRPr, <<DrawingKid("rId1")>>),
     Run([NoRPr EXCEPT !.has = TRUE], <<OtherKid("tab")>>),
     BookmarkStart(N_GoBack, "0"),
     BookmarkEnd("0"),
     BookmarkStart(N_Toc1, "1"),
     BookmarkStart(N_Foo, "2"),
     ProofErr}

\* one paragraph of up to MaxChildren children; styles Normal, X and Y are defined
DocStores ==
    {Store(RelsParts(<<Rel("rId1", T_image, S_media \o F_a_png, "Internal")>>),
           <<PlainStyle("Normal"), PlainStyle("X"), PlainStyle("Y")>>,
           <<MediaA>>, <<ParaRsid("Y", 1, children)>>, <<>>,
           [exists |-> TRUE, compat |-> <<>>, proof |-> <<>>], TRUE) :
        children \in UNION {[1..n -> ChildPool] : n \in 0..MaxChildren}}

CompatChoices ==
    {<<>>,
     <<[tag |-> "compatSetting", name |-> N_compatibilityMode]>>,
     <<[tag |-> "compatSetting", name |-> N_overrideTableStyle]>>,
     <<[tag |-> "useFELayout", name |-> <<>>]>>,
     <<[tag |-> "cachedColBalance", name |-> <<>>]>>}

SettingsChoices ==
    {NoSettings}
    \cup {[exists |-> TRUE, compat |-> c, proof |-> pr] :
            c \in CompatChoices, pr \in {<<>>, <<"proofState">>, <<"noProof">>}}

ThemeChoices ==
    {<<>>, <<[script |-> Sc_Jpan, typeface |-> "MS Mincho"]>>,
     <<[script |-> Sc_Latn, typeface |-> "Arial"]>>, <<[script |-> <<>>, typeface |-> "Arial"]>>}

\* theme, settings and revision-marker variety, with and without [Content_Types].xml
CruftStores ==
    {Store(RelsParts(<<>>), <<PlainStyle("Normal")>>, <<>>,
           <<ParaRsid("", rsids, <<Run(NoRPr, <<TextKid(<<"a">>)>>), ProofErr>>)>>,
           theme, settings, content_types) :
        theme \in ThemeChoices, settings \in SettingsChoices,
        rsids \in {0, 2}, content_types \in BOOLEAN}

\* small style graphs over defined styles, whose container declares no root relationships part
GraphStores ==
    {StyleStore(GraphStyles(g), used) :
        g \in {h \in SmallGraphs : DOMAIN h = SmallIds /\ EdgeCount(h) < MaxEdges},
        used \in {{}, {"X"}}}

DeepStores == RelStores \cup DocStores \cup CruftStores \cup GraphStores

(***************************************************************************)
(* Deep-clean specification: analyzers are constructed and run, and one     *)
(* deep cleaner is constructed from a report and run.                       *)
(***************************************************************************)
Init ==
    /\ parts \in DeepStores
    /\ analyzer = NewOrphanAnalyzer
    /\ pc = "new"
    /\ expanded = FALSE
    /\ iterations = 0
    /\ tool = "deep_cleaner"
    /\ sc = NoStyleCleaner
    /\ cleaner = NoDeepCleaner
    /\ history = NoHistory
    /\ det = NoDetection
    /\ cli = NoRun

\* OrphanAnalyzer(extract_dir): a new instance replaces the finished one
NewAnalyzer ==
    /\ tool = "deep_cleaner" /\ pc \in {"analyzed", "cleaned"}
    /\ analyzer' = NewOrphanAnalyzer
    /\ history' = [history EXCEPT !.runs = 0]
    /\ pc' = "new"
    /\ UNCHANGED <<parts, expanded, iterations, tool, sc, cleaner, det, cli>>

\* analyzer.analyze()
Analyze ==
    /\ tool = "deep_cleaner" /\ pc \in {"new", "analyzed"}
    /\ history.runs < MaxAnalyzeRuns
    /\ analyzer' = analyze(analyzer, parts)
    /\ history' = [history EXCEPT !.runs = @ + 1,
                                  !.prev_report = history.last_report,
                                  !.last_report = <<analyzer'.report>>]
    /\ pc' = "analyzed"
    /\ UNCHANGED <<parts, expanded, iterations, tool, sc, cleaner, det, cli>>

\* DeepCleaner(extract_dir, analyzer.report).clean(**flags)
Clean ==
    /\ tool = "deep_cleaner" /\ pc = "analyzed"
    /\ ~history.cleaned
    /\ \E flags \in RunDeepCleanFlags :
          LET st == clean(parts, analyzer.report, flags)
          IN  /\ parts' = st.parts
              /\ cleaner' = [orphan_report |-> analyzer.report, flags |-> flags, result |-> st.result]
    /\ history' = [history EXCEPT !.cleaned = TRUE,
                                  !.last_report = <<>>,
                                  !.prev_report = <<>>,
                                  !.pre_parts = <<parts>>,
                                  !.pre_analyzer = <<analyzer>>]
    /\ pc' = "cleaned"
    /\ UNCHANGED <<analyzer, expanded, iterations, tool, sc, det, cli>>

Next ==
    \/ NewAnalyzer
    \/ Analyze
    \/ Clean

Spec == Init /\ [][Next]_vars

(***************************************************************************)
(* Detection specification: the removal decisions, on drawn inputs.         *)
(***************************************************************************)
InitDetection ==
    /\ parts = Store(<<>>, <<>>, <<>>, <<>>, <<>>, NoSettings, TRUE)
    /\ analyzer = NewOrphanAnalyzer
    /\ pc = "new"
    /\ expanded = FALSE
    /\ iterations = 0
    /\ tool = "processor"
    /\ sc = NoStyleCleaner
    /\ cleaner = NoDeepCleaner
    /\ history = NoHistory
    /\ cli = NoRun
    /\ \E input \in DetectionInputs :
          det = [para |-> input.para, detections |-> input.detections,
                 call |-> "none", returned |-> FALSE, disabled |-> {}]

\* engine.should_remove(detections)
CallShouldRemove ==
    /\ tool = "processor" /\ det.call = "none"
    /\ det' = [det EXCEPT !.call = "should_remove",
                          !.returned = should_remove(det.detections)]
    /\ UNCHANGED <<parts, analyzer, pc, expanded, iterations, tool, sc, cleaner, history, cli>>

\* self._should_remove_paragraph(para, para_detections)
CallShouldRemoveParagraph ==
    /\ tool = "processor" /\ det.call = "none"
    /\ det' = [det EXCEPT !.call = "_should_remove_paragraph",
                          !.returned = should_remove_paragraph(det.para, det.detections)]
    /\ UNCHANGED <<parts, analyzer, pc, expanded, iterations, tool, sc, cleaner, history, cli>>

NextDetection ==
    \/ CallShouldRemove
    \/ CallShouldRemoveParagraph

SpecDetection == InitDetection /\ [][NextDetection]_vars

(***************************************************************************)
(* Engine specification: one detector, or detect_in_element, called on a    *)
(* drawn element and text under a drawn configuration.                      *)
(***************************************************************************)
\* the runs and paragraphs handed to a detector
EngineElements ==
    {[kind |-> "r", element |-> Run(rpr, <<>>)] :
        rpr \in {NoRPr} \cup
                {[has |-> TRUE, rStyle |-> st, i |-> it, vanish |-> v, color |-> c] :
                    st \in {"", "Note"}, it \in BOOLEAN, v \in BOOLEAN,
                    c \in {"", "ff0000", "00FF00"}}}
    \cup {[kind |-> "p", element |-> Para(st, <<>>)] : st \in {"", "Note", "Normal"}}

EngineTexts ==
    {<<>>, <<" ">>, <<"a">>, <<"N">>, <<"c">>, <<"c", "r">>, <<"s">>, <<"e">>,
     <<"k">>, <<"p">>, <<"a", "p">>, <<"k", "n">>}

Sections ==
    {"specifier_notes", "copyright_notices", "hidden_text", "specagent_references",
     "editorial_artifacts", "preserve_patterns"}

\* the sections a configuration switches off
DisabledChoices == {{}, Sections} \cup {{x} : x \in Sections}

\* the detector built from a section: detector.detect(element, text)
DetectorDetect(section, kind, element, id, text) ==
    CASE section = "specifier_notes" -> SpecifierNoteDetect(kind, element, id, text)
      [] section = "copyright_notices" -> CopyrightDetect(kind, element, id, text)
      [] section = "hidden_text" -> HiddenTextDetect(kind, element, id, text)
      [] section = "specagent_references" -> SpecAgentDetect(kind, element, id, text)
      [] section = "editorial_artifacts" -> EditorialArtifactDetect(kind, element, id, text)
      [] section = "preserve_patterns" -> PreserveDetect(kind, element, id, text)

InitEngine ==
    /\ parts = Store(<<>>, <<>>, <<>>, <<>>, <<>>, NoSettings, TRUE)
    /\ analyzer = NewOrphanAnalyzer
    /\ pc = "new"
    /\ expanded = FALSE
    /\ iterations = 0
    /\ tool = "engine"
    /\ sc = NoStyleCleaner
    /\ cleaner = NoDeepCleaner
    /\ history = NoHistory
    /\ cli = NoRun
    /\ \E e \in EngineElements, t \in EngineTexts, d \in DisabledChoices :
          det = [kind |-> e.kind, element |-> e.element, text |-> t, disabled |-> d,
                 call |-> "none", detector |-> "", detections |-> <<>>]

\* detector.detect(element, text) of one detector
CallDetect ==
    /\ tool = "engine" /\ det.call = "none"
    /\ \E section \in Sections :
          det' = [det EXCEPT !.call = "detect", !.detector = section,
                             !.detections = DetectorDetect(section, det.kind, det.element,
                                                           det.kind, det.text)]
    /\ UNCHANGED <<parts, analyzer, pc, expanded, iterations, tool, sc, cleaner, history, cli>>

\* engine.detect_in_element(element, text)
CallDetectInElement ==
    /\ tool = "engine" /\ det.call = "none"
    /\ det' = [det EXCEPT !.call = "detect_in_element",
                          !.detections = detect_in_element(det.kind, det.element, det.kind, det.text)]
    /\ UNCHANGED <<parts, analyzer, pc, expanded, iterations, tool, sc, cleaner, history, cli>>

NextEngine ==
    \/ CallDetect
    \/ CallDetectInElement

SpecEngine == InitEngine /\ [][NextEngine]_vars

(***************************************************************************)
(* Removal specification: the content-removal pass over one drawn part, by  *)
(* DocxProcessor._process_xml_file or by HeaderFooterProcessor.             *)
(***************************************************************************)
HiddenRPr == [NoRPr EXCEPT !.has = TRUE, !.vanish = TRUE]

\* the paragraphs of a part, before their tails: flagged by a pattern; flagged by
\* its style around a run that alone matches a preserve pattern; a hidden run
\* inside a hyperlink beside a plain run; plain; preserved; a hyperlink around a
\* flagged run; a hyperlink around a preserved run; a hidden run beside an image
RemovalParagraphs ==
    {<<"", <<Run(NoRPr, <<TextKid(<<"N">>)>>)>>>>,
     <<"Note", <<Run(NoRPr, <<TextKid(<<"a">>)>>), Run(NoRPr, <<TextKid(<<"p">>)>>)>>>>,
     <<"", <<Hyperlink(<<Run(HiddenRPr, <<TextKid(<<"a">>)>>)>>), Run(NoRPr, <<TextKid(<<"a">>)>>)>>>>,
     <<"", <<Run(NoRPr, <<TextKid(<<"a">>)>>)>>>>,
     <<"", <<Run(NoRPr, <<TextKid(<<"k">>)>>)>>>>,
     <<"", <<Hyperlink(<<Run(NoRPr, <<TextKid(<<"N">>)>>)>>)>>>>,
     <<"", <<Hyperlink(<<Run(NoRPr, <<TextKid(<<"k">>)>>)>>), Run(HiddenRPr, <<TextKid(<<"a">>)>>)>>>>,
     <<"", <<Run(HiddenRPr, <<TextKid(<<"a">>)>>), Run(NoRPr, <<DrawingKid("rId1")>>)>>>>}

RemovalParts ==
    UNION {{[text |-> t, paras |-> [i \in 1..n |-> ParaTail(ps[i][1], ps[i][2], tails[i])]] :
              t \in {<<>>, <<"y">>},
              ps \in [1..n -> RemovalParagraphs],
              tails \in [1..n -> {<<>>, <<"x">>}]} :
           n \in 1..MaxParas}

InitRemoval ==
    /\ parts = Store(<<>>, <<>>, <<>>, <<>>, <<>>, NoSettings, TRUE)
    /\ analyzer = NewOrphanAnalyzer
    /\ pc = "new"
    /\ expanded = FALSE
    /\ iterations = 0
    /\ tool = "remover"
    /\ sc = NoStyleCleaner
    /\ cleaner = NoDeepCleaner
    /\ history = NoHistory
    /\ cli = NoRun
    /\ \E part \in RemovalParts :
          det = [part |-> part, disabled |-> {}, call |-> "none", dry_run |-> FALSE,
                 detections |-> <<>>, removed |-> {}, after |-> part]

\* DocxProcessor._process_xml_file(xml_path, dry_run)
CallProcessXmlFile ==
    /\ tool = "remover" /\ det.call = "none"
    /\ \E dry_run \in BOOLEAN :
          LET r == process_xml_file(det.part, dry_run)
          IN  det' = [det EXCEPT !.call = "_process_xml_file", !.dry_run = dry_run,
                                 !.detections = r.detections, !.removed = r.removed,
                                 !.after = r.part]
    /\ UNCHANGED <<parts, analyzer, pc, expanded, iterations, tool, sc, cleaner, history, cli>>

\* HeaderFooterProcessor._process_hf_file(path, dry_run)
CallProcessHfFile ==
    /\ tool = "remover" /\ det.call = "none"
    /\ \E dry_run \in BOOLEAN :
          LET r == process_hf_file(det.part, dry_run)
          IN  det' = [det EXCEPT !.call = "_process_hf_file", !.dry_run = dry_run,
                                 !.detections = r.detections, !.removed = r.removed,
                                 !.after = r.part]
    /\ UNCHANGED <<parts, analyzer, pc, expanded, iterations, tool, sc, cleaner, history, cli>>

NextRemoval ==
    \/ CallProcessXmlFile
    \/ CallProcessHfFile

SpecRemoval == InitRemoval /\ [][NextRemoval]_vars

(***************************************************************************)
(* Command-line run (speccleanse.py main) and the deep clean it drives,     *)
(* DeepCleaner.clean taken one category at a time.                          *)
(***************************************************************************)
\* the order clean() tries the categories in, relationships ahead of media
RelationshipsFirstOrder ==
    <<"remove_relationships", "remove_media", "remove_styles", "strip_rsids",
      "remove_empty_elements", "remove_non_english_fonts", "remove_compat_settings",
      "remove_internal_bookmarks", "remove_proof_state">>

\* the order clean() tries the categories in, each named by its flag
clean_order ==
    <<"remove_media", "remove_relationships", "remove_styles", "strip_rsids",
      "remove_empty_elements", "remove_non_english_fonts", "remove_compat_settings",
      "remove_internal_bookmarks", "remove_proof_state">>

\* the method clean() calls for a category
RemovalStep(name, st, report) ==
    CASE name = "remove_media" -> RemoveOrphanedMedia(st, report)
      [] name = "remove_relationships" -> RemoveOrphanedRelationships(st, report)
      [] name = "remove_styles" -> RemoveOrphanedStyles(st, report)
      [] name = "strip_rsids" -> StripRsids(st)
      [] name = "remove_empty_elements" -> RemoveEmptyElements(st)
      [] name = "remove_non_english_fonts" -> RemoveNonEnglishFontMappings(st)
      [] name = "remove_compat_settings" -> RemoveCompatibilitySettings(st)
      [] name = "remove_internal_bookmarks" -> RemoveInternalBookmarks(st)
      [] name = "remove_proof_state" -> RemoveProofState(st)

\* whether a category's method reaches its file operations (stat/unlink, parse, write)
TouchesFiles(name, st, report) ==
    CASE name = "remove_media" ->
            \E i \in DOMAIN report.orphaned_media : \E j \in DOMAIN st.parts.media :
                st.parts.media[j].path = report.orphaned_media[i].path
      [] name = "remove_relationships" ->
            \E i \in DOMAIN report.orphaned_relationships :
                report.orphaned_relationships[i].source_file \in DOMAIN st.parts.rels
      [] name = "remove_styles" -> report.orphaned_styles # <<>> /\ st.parts.styles # <<>>
      [] name = "remove_non_english_fonts" -> st.parts.theme # <<>>
      [] name = "remove_compat_settings" -> st.parts.settings.exists
      [] OTHER -> TRUE

\* the categories whose method lets an OSError of its file operations escape:
\* _remove_orphaned_media has no handler, _remove_orphaned_relationships and
\* _remove_orphaned_styles handle XMLSyntaxError only
Unhandled == {"remove_media", "remove_relationships", "remove_styles"}

\* one category of clean(), when the file operations of category `fault` fail
\* with an OSError: [st, raised]
CleanCategory(name, st, report, fault) ==
    IF fault = name /\ TouchesFiles(name, st, report)
    THEN IF name \in Unhandled
         THEN [st |-> [st EXCEPT !.result.errors = @ \o <<"Cleaning failed: " \o name>>],
               raised |-> TRUE]
         ELSE [st |-> [st EXCEPT !.result.warnings = @ \o <<"Failed: " \o name>>],
               raised |-> FALSE]
    ELSE [st |-> RemovalStep(name, st, report), raised |-> FALSE]

\* the --only choices and the flag each stands for
only_choices ==
    [media |-> "remove_media", styles |-> "remove_styles", rsids |-> "strip_rsids",
     empty |-> "remove_empty_elements", fonts |-> "remove_non_english_fonts",
     compat |-> "remove_compat_settings", bookmarks |-> "remove_internal_bookmarks",
     proof |-> "remove_proof_state"]

\* run_deep_clean: the keyword arguments handed to analyze_and_clean;
\* remove_relationships is not among them and keeps its default
DeepCleanFlags(args) ==
    [k \in DOMAIN AllFlags |->
        IF k = "remove_relationships" THEN AllFlags[k]
        ELSE IF args.only # "" THEN k = only_choices[args.only]
        ELSE k \notin args.no]

\* run_deep_clean with --dry-run: the pseudo-result made from the report
DryRunResult(report) ==
    [NewDeepCleanResult EXCEPT
        !.success = TRUE,
        !.media_removed = Len(report.orphaned_media),
        !.styles_removed = Len(report.orphaned_styles),
        !.rsids_removed = report.total_rsid_attributes,
        !.empty_elements_removed = report.total_empty_elements,
        !.font_mappings_removed = Len(report.non_english_font_mappings),
        !.compat_settings_removed = Len(report.compatibility_settings),
        !.bookmarks_removed = Len(report.internal_bookmarks),
        !.proof_elements_removed = Len(report.proof_state_elements),
        !.bytes_saved = report.estimated_savings_bytes]

\* a container with something of every category to remove: an orphaned media file
\* (b.png), an unreferenced hyperlink relationship, an unused style X, revision
\* attributes, an empty run, a Japanese theme font, a compatibility flag, the
\* _GoBack bookmark pair, proof-state markers
RichStore(content_types) ==
    Store(RelsParts(<<Rel("rId1", T_image, S_media \o F_a_png, "Internal"),
                      Rel("rId2", T_hyperlink, F_url, "External")>>),
          <<PlainStyle("Normal"), PlainStyle("X"), PlainStyle("Y")>>,
          <<MediaA, MediaB>>,
          <<ParaRsid("Y", 2, <<Run(NoRPr, <<DrawingKid("rId1")>>),
                               Run(NoRPr, <<>>),
                               BookmarkStart(N_GoBack, "0"), BookmarkEnd("0"),
                               ProofErr,
                               Run(NoRPr, <<TextKid(<<"a">>)>>)>>)>>,
          <<[script |-> Sc_Jpan, typeface |-> "MS Mincho"], [script |-> Sc_Latn, typeface |-> "Arial"]>>,
          [exists |-> TRUE, compat |-> <<[tag |-> "useFELayout", name |-> <<>>]>>,
           proof |-> <<"proofState">>],
          content_types)

\* a container with nothing to remove
CleanStore(content_types) ==
    Store(RelsParts(<<>>), <<PlainStyle("Normal")>>, <<>>,
          <<Para("Normal", <<Run(NoRPr, <<TextKid(<<"a">>)>>)>>)>>,
          <<>>, NoSettings, content_types)

RunStores == {RichStore(c) : c \in BOOLEAN} \cup {CleanStore(c) : c \in BOOLEAN}

\* the extract directory when it does not exist
NoDirectory == Store(<<>>, <<>>, <<>>, <<>>, <<>>, NoSettings, FALSE)

\* StyleCleaner._expand_dependencies: the while loop run to its end
RECURSIVE expand_dependencies(_, _)
expand_dependencies(defined_styles, all_used) ==
    IF ExpandChanged(all_used, defined_styles)
    THEN expand_dependencies(defined_styles, ExpandPass(all_used, defined_styles))
    ELSE all_used

\* StyleCleaner.analyze on the extract directory; `malformed` names the parts that
\* are not well-formed XML.  etree.parse of styles.xml is outside any try.
StyleCleanerAnalyze(p, malformed) ==
    IF p.styles = <<>> /\ "word/styles.xml" \notin malformed
    THEN [raised |-> FALSE, result |-> [NewStyleCleanResult EXCEPT !.errors = <<"No styles.xml found">>]]
    ELSE IF "word/styles.xml" \in malformed
    THEN [raised |-> TRUE, result |-> NewStyleCleanResult]
    ELSE LET defined_styles == GetDefinedStyles(p.styles)
         IN  [raised |-> FALSE,
              result |-> StyleCleanerResult(defined_styles,
                             expand_dependencies(defined_styles, FindUsedStyles(p)))]

\* StyleCleaner.clean: the result, the directory as it is left, and whether the
\* call raised instead of returning
StyleCleanerClean(p, malformed, dry_run) ==
    LET a == StyleCleanerAnalyze(p, malformed)
        removed == SelectSeq(p.styles, LAMBDA st : st.styleId \in a.result.unused_styles)
    IN  IF a.raised THEN [raised |-> TRUE, result |-> a.result, parts |-> p]
        ELSE IF a.result.errors # <<>> \/ dry_run
        THEN [raised |-> FALSE, result |-> a.result, parts |-> p]
        ELSE IF a.result.unused_styles = {}
        THEN [raised |-> FALSE, result |-> a.result, parts |-> p]
        ELSE [raised |-> FALSE,
              result |-> [a.result EXCEPT !.removed_styles = [i \in DOMAIN removed |-> removed[i].styleId]],
              parts |-> [p EXCEPT !.styles = SelectSeq(p.styles,
                                     LAMBDA st : st.styleId \notin a.result.unused_styles)]]

\* a container whose paragraphs the detectors fire on: a pattern match, a
\* paragraph style, a hidden run beside a plain one, a preserved match, a hidden run
NoteStore ==
    Store(RelsParts(<<>>), <<PlainStyle("Normal"), PlainStyle("Note"), PlainStyle("X")>>, <<>>,
          <<Para("Normal", <<Run(NoRPr, <<TextKid(<<"N">>)>>)>>),
            Para("Note", <<Run(NoRPr, <<TextKid(<<"a">>)>>)>>),
            Para("Normal", <<Run([NoRPr EXCEPT !.has = TRUE, !.vanish = TRUE], <<TextKid(<<"a">>)>>),
                             Run(NoRPr, <<TextKid(<<"a">>)>>)>>),
            Para("Normal", <<Run(NoRPr, <<TextKid(<<"k", "n">>)>>)>>),
            Para("Normal", <<Run([NoRPr EXCEPT !.has = TRUE, !.vanish = TRUE], <<TextKid(<<"a">>)>>)>>)>>,
          <<>>, NoSettings, TRUE)

\* a container with no word/styles.xml
NoStylesStore ==
    Store(RelsParts(<<>>), <<>>, <<>>,
          <<Para("Normal", <<Run(NoRPr, <<TextKid(<<"a">>)>>)>>)>>,
          <<>>, NoSettings, TRUE)

\* analyze_and_clean called by a program with any flags; with all flags, also
\* under a failure of one category's file operations
ApiCalls ==
    {[entry |-> "api", mode |-> "deep_only", dry_run |-> FALSE, only |-> "", no |-> {},
      flags |-> f, fault |-> "none", zip_ok |-> TRUE, malformed |-> {}] :
        f \in [DOMAIN AllFlags -> BOOLEAN]}
    \cup {[entry |-> "api", mode |-> "deep_only", dry_run |-> FALSE, only |-> "", no |-> {},
           flags |-> AllFlags, fault |-> c, zip_ok |-> TRUE, malformed |-> {}] :
             c \in Range(clean_order)}

\* speccleanse input.docx output.docx --deep-only [--dry-run] [--only X | --no-X]
DeepOnlyCalls ==
    {[entry |-> "cli", mode |-> "deep_only", dry_run |-> d, only |-> o, no |-> n,
      flags |-> AllFlags, fault |-> c, zip_ok |-> z, malformed |-> {}] :
        d \in BOOLEAN, z \in BOOLEAN,
        o \in {""} \cup DOMAIN only_choices,
        n \in {{}, {"remove_media"}, {"remove_proof_state"}},
        c \in {"none", "remove_media", "strip_rsids"}}

\* speccleanse input.docx output.docx --styles-only [--dry-run]
StylesOnlyCalls ==
    {[entry |-> "cli", mode |-> "styles_only", dry_run |-> d, only |-> "", no |-> {},
      flags |-> AllFlags, fault |-> "none", zip_ok |-> z, malformed |-> m] :
        d \in BOOLEAN, z \in BOOLEAN, m \in {{}, {"word/styles.xml"}}}

\* speccleanse input.docx output.docx [--dry-run]
ShallowCalls ==
    {[entry |-> "cli", mode |-> "shallow", dry_run |-> d, only |-> "", no |-> {},
      flags |-> AllFlags, fault |-> "none", zip_ok |-> z, malformed |-> m] :
        d \in BOOLEAN, z \in BOOLEAN, m \in {{}, {"word/document.xml"}}}

\* the calls of a run and the containers each is made on
RunInputs ==
    {<<call, input>> : call \in ApiCalls \cup DeepOnlyCalls, input \in RunStores}
    \cup {<<call, input>> : call \in StylesOnlyCalls,
                            input \in {RichStore(TRUE), NoteStore, NoStylesStore}}
    \cup {<<call, input>> : call \in ShallowCalls, input \in {NoteStore, CleanStore(TRUE)}}

\* ProcessingResult(input_path, output_path)
NewProcessingResult == [detections |-> <<>>, removed_count |-> 0, preserved_count |-> 0, errors |-> <<>>]

\* `if flag:` of clean(), also true of remove_media when its flag is false
MediaAlwaysEnabled(flags, name) == name = "remove_media" \/ flags[name]

\* `if flag:` of clean()
CategoryEnabled(flags, name) == flags[name]

\* the finally clause, skipped when an exception is on its way out
KeepTempDirOnError(c) == IF c.raised THEN c ELSE [c EXCEPT !.temp_dir = FALSE]

\* the finally clause: `if temp_dir.exists(): shutil.rmtree(temp_dir)`
CleanupTempDir(c) == [c EXCEPT !.temp_dir = FALSE]

\* where control goes when clean() returns: to the caller, or to main's repacking
AfterClean == IF cli.entry = "api" THEN "returned" ELSE "repack"

(***************************************************************************)
(* Run specification: one call of analyze_and_clean, or one run of main.    *)
(***************************************************************************)
InitRun ==
    /\ analyzer = NewOrphanAnalyzer
    /\ pc = "start"
    /\ expanded = FALSE
    /\ iterations = 0
    /\ tool = "cli"
    /\ sc = NoStyleCleaner
    /\ cleaner = NoDeepCleaner
    /\ history = NoHistory
    /\ det = NoDetection
    /\ \E ci \in RunInputs :
          /\ cli = [entry |-> ci[1].entry, args |-> ci[1], input |-> ci[2],
                    temp_dir |-> FALSE, proc_temp_dir |-> FALSE, proc_error |-> FALSE,
                    result |-> NewProcessingResult, style_result |-> NewStyleCleanResult,
                    step |-> 0, log |-> <<>>, struck |-> FALSE, output |-> <<>>,
                    raised |-> FALSE, raised_in |-> "", exit |-> "", removed |-> {}]
          /\ parts = IF ci[1].entry = "api" THEN ci[2] ELSE NoDirectory

\* main: tempfile.mkdtemp, then zf.extractall(unpacked) inside the try
MainUnpack ==
    /\ tool = "cli" /\ cli.entry = "cli" /\ pc = "start"
    /\ cli.args.mode \in {"deep_only", "styles_only"}
    /\ IF cli.args.zip_ok
       THEN /\ parts' = cli.input
            /\ cli' = [cli EXCEPT !.temp_dir = TRUE]
            /\ pc' = "unpacked"
       ELSE /\ parts' = parts
            /\ cli' = [cli EXCEPT !.temp_dir = TRUE, !.raised = TRUE, !.raised_in = "main"]
            /\ pc' = "finally"
    /\ UNCHANGED <<analyzer, expanded, iterations, tool, sc, cleaner, history, det>>

\* run_deep_clean: with --dry-run get_analysis_only and the pseudo-result; without,
\* analyze_and_clean up to the construction of the DeepCleaner
RunDeepClean ==
    /\ tool = "cli"
    /\ \/ cli.entry = "cli" /\ pc = "unpacked" /\ cli.args.mode = "deep_only"
       \/ cli.entry = "api" /\ pc = "start"
    /\ LET flags == IF cli.entry = "api" THEN cli.args.flags ELSE DeepCleanFlags(cli.args)
           an == analyze(NewOrphanAnalyzer, parts)
       IN  /\ analyzer' = an
           /\ IF cli.entry = "cli" /\ cli.args.dry_run
              THEN /\ cleaner' = [orphan_report |-> an.report, flags |-> flags,
                                  result |-> DryRunResult(an.report)]
                   /\ pc' = "repack"
                   /\ cli' = cli
              ELSE /\ cleaner' = [orphan_report |-> an.report, flags |-> flags,
                                  result |-> NewDeepCleanResult]
                   /\ pc' = "clean"
                   /\ cli' = [cli EXCEPT !.step = 1]
    /\ UNCHANGED <<parts, expanded, iterations, tool, sc, history, det>>

\* DeepCleaner.clean: the next `if flag: self._remove...()` of the try block
CleanStep ==
    /\ tool = "cli" /\ pc = "clean" /\ cli.step \in DOMAIN clean_order
    /\ LET name == clean_order[cli.step]
           r == CleanCategory(name, [parts |-> parts, result |-> cleaner.result],
                              cleaner.orphan_report, cli.args.fault)
       IN  IF ~CategoryEnabled(cleaner.flags, name)
           THEN /\ cli' = [cli EXCEPT !.step = @ + 1]
                /\ UNCHANGED <<parts, cleaner, pc>>
           ELSE /\ parts' = r.st.parts
                /\ cleaner' = [cleaner EXCEPT !.result = r.st.result]
                /\ cli' = [cli EXCEPT
                              !.step = @ + 1, !.log = Append(@, name),
                              !.struck = @ \/ (cli.args.fault = name /\
                                  TouchesFiles(name, [parts |-> parts, result |-> cleaner.result],
                                               cleaner.orphan_report))]
                /\ pc' = IF r.raised THEN AfterClean ELSE pc
    /\ UNCHANGED <<analyzer, expanded, iterations, tool, sc, history, det>>

\* DeepCleaner.clean: self._validate_structure() and the return
Validate ==
    /\ tool = "cli" /\ pc = "clean" /\ cli.step = Len(clean_order) + 1
    /\ cleaner' = [cleaner EXCEPT
                      !.result = ValidateStructure([parts |-> parts, result |-> cleaner.result]).result]
    /\ cli' = [cli EXCEPT !.log = Append(@, "validate")]
    /\ pc' = AfterClean
    /\ UNCHANGED <<parts, analyzer, expanded, iterations, tool, sc, history, det>>

\* main: style_result = style_cleaner.clean(unpacked, dry_run=args.dry_run)
RunStyleClean ==
    /\ tool = "cli" /\ cli.entry = "cli" /\ pc = "unpacked" /\ cli.args.mode = "styles_only"
    /\ LET r == StyleCleanerClean(parts, cli.args.malformed, cli.args.dry_run)
       IN  IF r.raised
           THEN /\ cli' = [cli EXCEPT !.raised = TRUE, !.raised_in = "StyleCleaner.clean"]
                /\ parts' = parts
                /\ pc' = "finally"
           ELSE /\ cli' = [cli EXCEPT !.style_result = r.result]
                /\ parts' = r.parts
                /\ pc' = "repack"
    /\ UNCHANGED <<analyzer, expanded, iterations, tool, sc, cleaner, history, det>>

\* main: tempfile.mkdtemp; DocxProcessor.process up to the unpacking: an invalid
\* container is an error of the result, before any directory is made
ProcessUnpack ==
    /\ tool = "cli" /\ cli.entry = "cli" /\ pc = "start" /\ cli.args.mode = "shallow"
    /\ IF cli.args.zip_ok
       THEN /\ parts' = cli.input
            /\ cli' = [cli EXCEPT !.temp_dir = TRUE, !.proc_temp_dir = TRUE]
            /\ pc' = "process"
       ELSE /\ parts' = parts
            /\ cli' = [cli EXCEPT !.temp_dir = TRUE,
                                  !.result.errors = Append(@, "Invalid DOCX file")]
            /\ pc' = "finally"
    /\ UNCHANGED <<analyzer, expanded, iterations, tool, sc, cleaner, history, det>>

\* DocxProcessor.process: _process_xml_file on word/document.xml; a part that does
\* not parse raises out of the inner try
ProcessFiles ==
    /\ tool = "cli" /\ pc = "process"
    /\ IF "word/document.xml" \in cli.args.malformed
       THEN /\ cli' = [cli EXCEPT !.proc_error = TRUE]
            /\ parts' = parts
       ELSE LET r == process_xml_file(DocumentPart(parts), cli.args.dry_run)
            IN  /\ cli' = [cli EXCEPT !.result.detections = @ \o r.detections,
                                      !.removed = r.removed]
                /\ parts' = [parts EXCEPT !.document = r.part.paras]
    /\ pc' = "processed"
    /\ UNCHANGED <<analyzer, expanded, iterations, tool, sc, cleaner, history, det>>

\* DocxProcessor.process: the counts, the repacking, the finally clause that removes
\* the processor's directory, the outer `except Exception`, and the return
ProcessFinish ==
    /\ tool = "cli" /\ pc = "processed"
    /\ LET ds == cli.result.detections
           preserved == Cardinality({i \in DOMAIN ds : ds[i].content_type = "preserve"})
       IN  cli' = IF cli.proc_error
                  THEN [cli EXCEPT !.proc_temp_dir = FALSE,
                                   !.result.errors = Append(@, "Processing error")]
                  ELSE [cli EXCEPT !.proc_temp_dir = FALSE,
                                   !.result.preserved_count = preserved,
                                   !.result.removed_count = Len(ds) - preserved,
                                   !.output = IF cli.args.dry_run THEN @ ELSE <<parts>>]
    /\ parts' = NoDirectory
    /\ pc' = "finally"
    /\ UNCHANGED <<analyzer, expanded, iterations, tool, sc, cleaner, history, det>>

\* main: `if not args.dry_run:` the unpacked directory is zipped into args.output
Repack ==
    /\ tool = "cli" /\ pc = "repack"
    /\ cli' = [cli EXCEPT !.output = IF cli.args.dry_run THEN @ ELSE <<parts>>]
    /\ pc' = "finally"
    /\ UNCHANGED <<parts, analyzer, expanded, iterations, tool, sc, cleaner, history, det>>

\* main: the finally clause, shutil.rmtree(temp_dir); an exception goes on to end
\* the program with a traceback
Finally ==
    /\ tool = "cli" /\ pc = "finally"
    /\ parts' = NoDirectory
    /\ cli' = [CleanupTempDir(cli) EXCEPT !.exit = IF cli.raised THEN "1" ELSE @]
    /\ pc' = IF cli.raised THEN "exited" ELSE "exit"
    /\ UNCHANGED <<analyzer, expanded, iterations, tool, sc, cleaner, history, det>>

\* main: sys.exit(0 if result.success else 1), result being the ProcessingResult
Exit ==
    /\ tool = "cli" /\ pc = "exit"
    /\ cli' = [cli EXCEPT !.exit = IF cli.result.errors = <<>> THEN "0" ELSE "1"]
    /\ pc' = "exited"
    /\ UNCHANGED <<parts, analyzer, expanded, iterations, tool, sc, cleaner, history, det>>

NextRun ==
    \/ MainUnpack
    \/ RunDeepClean
    \/ CleanStep
    \/ Validate
    \/ RunStyleClean
    \/ ProcessUnpack
    \/ ProcessFiles
    \/ ProcessFinish
    \/ Repack
    \/ Finally
    \/ Exit

SpecRun == InitRun /\ [][NextRun]_vars

(***************************************************************************)
(* Properties of the style closure.                                        *)
(***************************************************************************)
\* the dependency graph the styles part declares: id -> based-on / next / linked ids
DeclaredStyleGraph ==
    LET d == DictUpdate(<<>>, [i \in DOMAIN parts.styles |->
                [key |-> parts.styles[i].styleId,
                 deps |-> {parts.styles[i].basedOn, parts.styles[i].next, parts.styles[i].link} \ {""}]])
    IN  [id \in DictKeys(d) |-> DictGet(d, id).deps]

\* the transitive closure of a graph, by repeated squaring
RECURSIVE Closure(_)
Closure(g) ==
    LET g2 == [s \in DOMAIN g |-> g[s] \cup UNION {g[t] : t \in g[s] \cap DOMAIN g}]
    IN  IF g2 = g THEN g ELSE Closure(g2)

\* the styles reachable from S by zero or more dependency hops
Reach(S, g) ==
    LET c == Closure(g)
    IN  S \cup UNION {c[s] : s \in S \cap DOMAIN g}

\* the styles a content part references directly
DirectlyUsed == {s \in DocStyleRefs(parts.document) : s # ""}

\* the used-set the finished closure produced
ClosedUsed == IF tool = "orphan_analyzer" THEN analyzer.used_styles ELSE sc.all_used

\* C1: once the closure has finished, every style reachable by zero or more
\* based-on / next / linked hops from a directly referenced style is in the
\* used-set, and none of them is listed in orphaned_styles.
C1_ClosureComplete ==
    pc = "done" =>
        /\ Reach(DirectlyUsed, DeclaredStyleGraph) \subseteq ClosedUsed
        /\ Range(analyzer.report.orphaned_styles) \cap Reach(DirectlyUsed, DeclaredStyleGraph) = {}

\* C2: no style listed in orphaned_styles is a direct or transitive dependency
\* of a style of the final used-set, the built-in styles included.
C2_NoOrphanIsDependency ==
    (pc = "done" /\ tool = "orphan_analyzer") =>
        Range(analyzer.report.orphaned_styles)
            \cap Reach(analyzer.used_styles, DeclaredStyleGraph) = {}

\* C3: the closure terminates on every style graph, cyclic ones included.
C3_Termination == <>(pc = "done")

\* a finished closure, by either implementation's loop, over a graph in which
\* a used style reaches itself
C3_Witness ==
    /\ pc = "done"
    /\ \E s \in ClosedUsed \cap DOMAIN DeclaredStyleGraph :
          s \in Reach(DeclaredStyleGraph[s], DeclaredStyleGraph)
    /\ Cardinality(ClosedUsed \ builtin_required) >= 2

(***************************************************************************)
(* Properties of analysis and deep cleaning.                               *)
(***************************************************************************)
\* C4: two successive runs of analyze() over a container that was not changed
\* in between return reports with identical contents.
C4_AnalyzeIdempotent ==
    history.prev_report # <<>> => history.last_report = history.prev_report

\* the relationship (source, rel) is listed in orphaned_relationships
ListedOrphan(report, source, id) ==
    \E i \in DOMAIN report.orphaned_relationships :
        /\ report.orphaned_relationships[i].source_file = source
        /\ report.orphaned_relationships[i].rId = id

\* C6: after analysis, no relationship whose type is on the essential allow-list
\* is listed in orphaned_relationships, referenced or not, and every hyperlink
\* relationship whose id no content part references is listed.
C6_EssentialNeverOrphaned ==
    pc = "analyzed" =>
        \A source \in DOMAIN parts.rels : \A i \in DOMAIN parts.rels[source] :
            LET rel == parts.rels[source][i]
            IN  /\ LastSegment(rel.Type) \in Range(essential_types)
                      => ~ListedOrphan(analyzer.report, source, rel.Id)
                /\ (LastSegment(rel.Type) = T_hyperlink /\ rel.Id \notin DocIdAttrValues(parts.document))
                      => ListedOrphan(analyzer.report, source, rel.Id)

\* what the analysis that preceded the removal found defined and used
PreUsedRelationships ==
    LET an == history.pre_analyzer[1]
    IN  {an.defined_rids[i].key :
            i \in {j \in DOMAIN an.defined_rids :
                     \/ an.defined_rids[j].key \in an.used_rids
                     \/ <<"", an.defined_rids[j].rId>> \in an.used_rids}}

PreUsedStyles ==
    LET an == history.pre_analyzer[1]
    IN  DictKeys(an.defined_styles) \cap an.used_styles

PreUsedMedia ==
    LET an == history.pre_analyzer[1]
    IN  {k \in DictKeys(an.defined_media) : IsReferencedMedia(k, ReferencedMedia(an.defined_rids))}

\* C7: when the cleaned container is analyzed again, every relationship, style
\* and media file that the pre-removal analysis found used is still defined and
\* is not reported orphaned.
C7_CleanKeepsUsed ==
    (history.cleaned /\ pc = "analyzed") =>
        /\ PreUsedRelationships \subseteq DictKeys(analyzer.defined_rids)
        /\ \A k \in PreUsedRelationships : ~ListedOrphan(analyzer.report, k[1], k[2])
        /\ PreUsedStyles \subseteq DictKeys(analyzer.defined_styles)
        /\ PreUsedStyles \cap Range(analyzer.report.orphaned_styles) = {}
        /\ PreUsedMedia \subseteq DictKeys(analyzer.defined_media)
        /\ \A i \in DOMAIN analyzer.report.orphaned_media :
              analyzer.report.orphaned_media[i].path \notin PreUsedMedia

\* a run whose only child is a text element with empty content
OnlyEmptyText(run) == run.kids = <<TextKid(<<>>)>> /\ ~run.rPr.has

HasDrawing(run) == \E k \in DOMAIN run.kids : run.kids[k].tag = "drawing"

\* the empty_runs count the latest report holds for word/document.xml
ReportedEmptyRuns ==
    LET e == SelectSeq(history.last_report[1].empty_elements,
                       LAMBDA x : x.file = "word/document.xml" /\ x.element = "empty_runs")
    IN  IF e = <<>> THEN 0 ELSE e[Len(e)].count

\* C8: the scan counts every run whose only child is an empty text element and
\* counts no run that has a drawing child; the remover removes every run of the
\* first kind and no run of the second kind.
C8_EmptyRunClassification ==
    /\ (pc = "analyzed" /\ history.runs = 1) =>
          /\ ReportedEmptyRuns >= Len(SelectSeq(DocRuns(parts.document), OnlyEmptyText))
          /\ ReportedEmptyRuns <= Len(DocRuns(parts.document))
                                    - Len(SelectSeq(DocRuns(parts.document), HasDrawing))
    /\ (pc = "cleaned" /\ cleaner.flags.remove_empty_elements) =>
          /\ SelectSeq(DocRuns(parts.document), OnlyEmptyText) = <<>>
          /\ SelectSeq(DocRuns(parts.document), HasDrawing)
                = SelectSeq(DocRuns(history.pre_parts[1].document), HasDrawing)

InternalStarts(document) ==
    SelectSeq(DocBookmarkStarts(document), LAMBDA b : IsInternalName(b.name))

\* C9: after _remove_internal_bookmarks, bookmarks_removed is the number of
\* internal-prefixed bookmarks that were removed from word/document.xml.
C9_BookmarksCountedAsPairs ==
    (pc = "cleaned" /\ cleaner.flags.remove_internal_bookmarks) =>
        cleaner.result.bookmarks_removed =
            Len(InternalStarts(history.pre_parts[1].document)) - Len(InternalStarts(parts.document))

(***************************************************************************)
(* Properties of the removal decisions.                                    *)
(***************************************************************************)
HasPreserve == \E i \in DOMAIN det.detections : det.detections[i].content_type = "preserve"

\* C5: should_remove returns false whenever the list holds a preserve detection,
\* whatever the other confidences; otherwise it returns true exactly when some
\* detection has confidence >= 0.5 (false for the empty list).
C5_ShouldRemove ==
    det.call = "should_remove" =>
        /\ HasPreserve => det.returned = FALSE
        /\ ~HasPreserve =>
              (det.returned <=> \E i \in DOMAIN det.detections : det.detections[i].confidence >= 5)
        /\ det.detections = <<>> => det.returned = FALSE

\* a preserve detection beside a detection of confidence 1.0: not removed
C5_Witness ==
    /\ det.call = "should_remove"
    /\ HasPreserve
    /\ \E i \in DOMAIN det.detections :
          det.detections[i].content_type # "preserve" /\ det.detections[i].confidence = 10
    /\ det.returned = FALSE

\* flagged: some detection of the element has confidence >= 0.5
Flagged(e) ==
    \E i \in DOMAIN det.detections :
        det.detections[i].element = e /\ det.detections[i].confidence >= 5

\* the runs of the paragraph whose text is more than whitespace
TextBearingRuns ==
    {i \in DOMAIN det.para.children :
        /\ det.para.children[i].tag = "r"
        /\ \E k \in DOMAIN det.para.children[i].kids :
              \E c \in DOMAIN det.para.children[i].kids[k].text :
                  det.para.children[i].kids[k].text[c] \notin Whitespace}

ImageRuns ==
    {i \in DOMAIN det.para.children :
        /\ det.para.children[i].tag = "r"
        /\ i \notin TextBearingRuns
        /\ \E k \in DOMAIN det.para.children[i].kids : det.para.children[i].kids[k].tag = "drawing"}

\* C21: a paragraph whose only text-bearing run is flagged but which also holds an
\* image run that is not flagged is not marked for whole-paragraph removal.
C21_ImageRunKeepsParagraph ==
    (/\ det.call = "_should_remove_paragraph"
     /\ ~HasPreserve /\ ~Flagged("p")
     /\ Cardinality(TextBearingRuns) = 1
     /\ \A r \in TextBearingRuns : Flagged(RunId(r))
     /\ \E i \in ImageRuns : ~Flagged(RunId(i)))
        => ~det.returned

(***************************************************************************)
(* Properties of clean() and of the command-line run.                       *)
(***************************************************************************)
\* the order the categories are to run in, validation last
FixedOrder ==
    <<"remove_media", "remove_relationships", "remove_styles", "strip_rsids",
      "remove_empty_elements", "remove_non_english_fonts", "remove_compat_settings",
      "remove_internal_bookmarks", "remove_proof_state", "validate">>

Position(name) == CHOOSE i \in DOMAIN FixedOrder : FixedOrder[i] = name

\* the categories clean() was called with enabled
EnabledCategories == {k \in DOMAIN cleaner.flags : cleaner.flags[k]}

\* clean() has been called and has returned
CleanReturned ==
    /\ cli.step >= 1
    /\ pc \in {"returned", "repack", "finally", "exit", "exited"}

ValidationFailed == "validate" \in Range(cli.log) /\ ~cli.input.content_types

\* C12: when structural validation fails, the clean result has success = false
\* and a non-empty errors list, and the command-line run does not exit with 0.
C12_ValidationFailureReported ==
    ValidationFailed =>
        /\ ~cleaner.result.success
        /\ cleaner.result.errors # <<>>
        /\ pc = "exited" => cli.exit # "0"

\* C13: when clean() returns without success (validation failed or a removal
\* raised), the extract directory holds its pre-removal contents and no output
\* container other than the unchanged one has been written.
C13_AllOrNothing ==
    (CleanReturned /\ ~cleaner.result.success) =>
        /\ pc \in {"returned", "repack"} => parts = cli.input
        /\ cli.output \in {<<>>, <<cli.input>>}

\* C14: when the file operations of a category failed inside its removal, a
\* warning is recorded, and by the time clean() returns every enabled category
\* and the structural validation have run.
C14_FailureDowngraded ==
    (CleanReturned /\ cli.struck) =>
        /\ cleaner.result.warnings # <<>>
        /\ EnabledCategories \cup {"validate"} \subseteq Range(cli.log)

\* the children of each paragraph that have one of the tags
ChildrenTagged(document, tags) ==
    [i \in DOMAIN document |-> SelectSeq(document[i].children, LAMBDA c : c.tag \in tags)]

\* nothing of the category has been deleted and its count is 0
CategoryUntouched(c) ==
    CASE c = "remove_media" ->
            cleaner.result.media_removed = 0 /\ parts.media = cli.input.media
      [] c = "remove_relationships" ->
            cleaner.result.relationships_removed = 0 /\ parts.rels = cli.input.rels
      [] c = "remove_styles" ->
            cleaner.result.styles_removed = 0 /\ parts.styles = cli.input.styles
      [] c = "strip_rsids" ->
            /\ cleaner.result.rsids_removed = 0
            /\ [i \in DOMAIN parts.document |-> parts.document[i].rsids]
                 = [i \in DOMAIN cli.input.document |-> cli.input.document[i].rsids]
      [] c = "remove_empty_elements" ->
            /\ cleaner.result.empty_elements_removed = 0
            /\ ChildrenTagged(parts.document, {"r"}) = ChildrenTagged(cli.input.document, {"r"})
      [] c = "remove_non_english_fonts" ->
            cleaner.result.font_mappings_removed = 0 /\ parts.theme = cli.input.theme
      [] c = "remove_compat_settings" ->
            /\ cleaner.result.compat_settings_removed = 0
            /\ parts.settings.compat = cli.input.settings.compat
      [] c = "remove_internal_bookmarks" ->
            /\ cleaner.result.bookmarks_removed = 0
            /\ ChildrenTagged(parts.document, {"bookmarkStart", "bookmarkEnd"})
                 = ChildrenTagged(cli.input.document, {"bookmarkStart", "bookmarkEnd"})
      [] c = "remove_proof_state" ->
            /\ cleaner.result.proof_elements_removed = 0
            /\ parts.settings.proof = cli.input.settings.proof
            /\ ChildrenTagged(parts.document, {"proofErr"})
                 = ChildrenTagged(cli.input.document, {"proofErr"})

C17_OnlySingleOperation ==
    (cli.entry = "cli" /\ cli.args.only # "" /\ cli.step >= 1) =>
        /\ Range(cli.log) \subseteq {only_choices[cli.args.only], "validate"}
        /\ cleaner.result.relationships_removed = 0

\* the nine removed-counts of a clean result
ResultCounts(result) ==
    <<result.relationships_removed, result.media_removed, result.styles_removed,
      result.rsids_removed, result.empty_elements_removed, result.font_mappings_removed,
      result.compat_settings_removed, result.bookmarks_removed, result.proof_elements_removed>>

\* C19: the counts of the result a deep-clean dry run reports equal the counts
\* clean() reports for the same container and the same flags.
C19_DryRunMatchesReal ==
    (cli.entry = "cli" /\ cli.args.dry_run /\ ~cli.raised
        /\ pc \in {"repack", "finally", "exit", "exited"}) =>
        ResultCounts(cleaner.result)
            = ResultCounts(clean(cli.input, cleaner.orphan_report, cleaner.flags).result)

CoreEntryPoints ==
    {"OrphanAnalyzer.analyze", "DeepCleaner.clean", "StyleCleaner.analyze",
     "StyleCleaner.clean", "DocxProcessor.process"}

\* C15: no core entry point raises on a malformed or missing part: analyze, clean
\* and process always return a result.
C15_NoEntryPointRaises ==
    cli.raised_in \notin CoreEntryPoints

\* a dry run of the command line that got as far as its work
DryRunUnderWay ==
    /\ cli.entry = "cli" /\ cli.args.dry_run /\ ~cli.raised
    /\ pc \in {"processed", "repack", "finally", "exit", "exited"}

\* C18: with dry_run true nothing is modified: no node is removed and no part
\* rewritten in the extract directory, no style is removed, the deep clean runs no
\* removal, no output is written; and the detections are those of a real run.
C18_DryRunModifiesNothing ==
    (cli.entry = "cli" /\ cli.args.dry_run) =>
        /\ parts \in {NoDirectory, cli.input}
        /\ cli.output = <<>>
        /\ cli.log = <<>>
        /\ cli.style_result.removed_styles = <<>>
        /\ (DryRunUnderWay /\ cli.args.mode = "shallow" /\ cli.args.zip_ok /\ ~cli.proc_error
              /\ cli.result.errors = <<>>) =>
              cli.result.detections = process_xml_file(DocumentPart(cli.input), FALSE).detections
        /\ (DryRunUnderWay /\ cli.args.mode = "styles_only") =>
              cli.style_result.unused_styles =
                  StyleCleanerClean(cli.input, cli.args.malformed, FALSE).result.unused_styles

\* a dry run ended on a container a real run removes paragraphs and styles of
C18_Witness ==
    /\ DryRunUnderWay /\ pc = "processed" /\ cli.args.mode = "shallow"
    /\ ~cli.proc_error
    /\ cli.result.detections # <<>>
    /\ process_xml_file(DocumentPart(cli.input), FALSE).part # DocumentPart(cli.input)
    /\ parts = cli.input

\* C20: the temporary extraction directory is removed on every exit path: when the
\* run has ended, normally or by an exception, neither main's nor the processor's
\* directory exists.
C20_TempDirRemoved ==
    pc = "exited" => (~cli.temp_dir /\ ~cli.proc_temp_dir)

\* a run that made its directory and ended by an exception
C20_Witness ==
    pc = "exited" /\ cli.raised /\ cli.exit = "1" /\ ~cli.temp_dir


(***************************************************************************)
(* Properties of the detectors.                                            *)
(***************************************************************************)
\* the signals of the element and text under classification, read off the input
Blank == \A c \in DOMAIN det.text : det.text[c] \in Whitespace

HasLetter(l) == \E c \in DOMAIN det.text : det.text[c] \in l

NoteSum ==
    (IF HasLetter({"n", "N"}) THEN 6 ELSE 0)
    + (IF det.kind = "r" /\ det.element.rPr.has /\ det.element.rPr.i THEN 2 ELSE 0)
    + (IF det.kind = "r" /\ det.element.rPr.has /\ det.element.rPr.color \in {"ff0000", "FF0000"}
       THEN 3 ELSE 0)
    + (IF det.kind = "r" /\ det.element.rPr.has /\ det.element.rPr.rStyle = "Note" THEN 8 ELSE 0)
    + (IF det.kind = "p" /\ det.element.pStyle = "Note" THEN 8 ELSE 0)

CopyrightSum ==
    LET matching == (IF HasLetter({"c", "C"}) THEN 1 ELSE 0) + (IF HasLetter({"r", "R"}) THEN 1 ELSE 0)
    IN  7 * matching + (IF matching >= 2 THEN 2 ELSE 0)

Capped(sum) == IF sum > 10 THEN 10 ELSE sum

\* C25: every detection of a removal classifier has 0.5 <= confidence <= 1.0; the
\* specifier-note and copyright classifiers emit only when their sum is >= 0.5 and
\* report it capped at 1.0; the hidden-text and reference-pattern classifiers emit
\* exactly 1.0; a disabled classifier emits nothing.
C25_ConfidenceBounds ==
    (det.call = "detect" /\ det.detector # "preserve_patterns") =>
        /\ Len(det.detections) <= 1
        /\ \A i \in DOMAIN det.detections :
              /\ det.detections[i].confidence >= 5
              /\ det.detections[i].confidence <= 10
              /\ det.detector = "specifier_notes" =>
                    NoteSum >= 5 /\ det.detections[i].confidence = Capped(NoteSum)
              /\ det.detector = "copyright_notices" =>
                    CopyrightSum >= 5 /\ det.detections[i].confidence = Capped(CopyrightSum)
              /\ det.detector \in {"hidden_text", "specagent_references"} =>
                    det.detections[i].confidence = 10
        /\ det.detector \in det.disabled => det.detections = <<>>

\* a specifier note whose signals add up to more than 1.0, reported as 1.0
C25_Witness ==
    /\ det.call = "detect" /\ det.detector = "specifier_notes"
    /\ NoteSum > 10
    /\ det.detections # <<>>
    /\ det.detections[1].confidence = 10

\* the preserve classifier fires: it is enabled and a preserve pattern matches text
\* that is more than whitespace
PreserveFires ==
    /\ "preserve_patterns" \notin det.disabled
    /\ ~Blank
    /\ \/ HasLetter({"k", "K"})
       \/ det.text \in {<<"p">>, <<"P">>}

\* C26: when the preserve classifier fires on a node, detect_in_element returns the
\* single preserve detection and nothing else; a returned list never holds a
\* preserve detection beside a removal detection.
C26_PreserveVeto ==
    det.call = "detect_in_element" =>
        /\ PreserveFires =>
              /\ Len(det.detections) = 1
              /\ det.detections[1].content_type = "preserve"
        /\ (\E i \in DOMAIN det.detections : det.detections[i].content_type = "preserve")
              => Len(det.detections) = 1

\* preserve fires on a node a removal classifier would have flagged
C26_Witness ==
    /\ det.call = "detect_in_element"
    /\ PreserveFires
    /\ NoteSum >= 5
    /\ "specifier_notes" \notin det.disabled
    /\ det.detections = <<Detection("preserve", det.kind, 10)>>

(***************************************************************************)
(* Properties of the content-removal pass.                                 *)
(***************************************************************************)
\* the detections of single runs
RunDetections == {i \in DOMAIN det.detections : Len(det.detections[i].node) >= 2}

\* C22: in one pass a run is classified on its own at most once, and only if its
\* paragraph was neither flagged nor preserved at paragraph level, also when the
\* run is nested (in a hyperlink): no node yields two detections of one kind, and
\* no run has a detection where its paragraph has one.
C22_RunsClassifiedOnce ==
    det.call = "_process_xml_file" =>
        /\ \A i, j \in DOMAIN det.detections :
              (/\ det.detections[i].node = det.detections[j].node
               /\ det.detections[i].content_type = det.detections[j].content_type) => i = j
        /\ \A i \in RunDetections :
              ~\E j \in DOMAIN det.detections :
                  det.detections[j].node = <<det.detections[i].node[1]>>

\* the text a paragraph holds in the runs that are not among `removed`
KeptRunText(part, i, removed) ==
    LET runs == ParaRuns(part.paras[i])
    IN  Flatten([n \in DOMAIN runs |->
                   IF (<<i>> \o runs[n].path) \in removed THEN <<>>
                   ELSE get_run_text(runs[n].run)])

\* all text of the part in document order, but for the subtrees of `removed`
TextOutside(part, removed) ==
    part.text \o
    Flatten([i \in DOMAIN part.paras |->
               (IF <<i>> \in removed THEN <<>> ELSE KeptRunText(part, i, removed))
               \o part.paras[i].tail])

\* C23: a removal keeps the text that follows the removed element: the text outside
\* the removed subtrees, in document order, is the same before and after, for every
\* removal of the content-removal pass, header and footer paragraphs included.
C23_TailTextKept ==
    (det.call \in {"_process_xml_file", "_process_hf_file"} /\ ~det.dry_run) =>
        TextOutside(det.after, {}) = TextOutside(det.part, det.removed)

\* a run's own text matches an enabled preserve pattern
MatchesPreserve(run) ==
    LET t == get_run_text(run)
    IN  /\ "preserve_patterns" \notin det.disabled
        /\ \E c \in DOMAIN t : t[c] \notin Whitespace
        /\ \/ \E c \in DOMAIN t : t[c] \in {"k", "K"}
           \/ t \in {<<"p">>, <<"P">>}

\* C27: a run whose own text matches an enabled preserve pattern is never removed
\* by the content-removal pass, neither itself nor with its paragraph.
C27_PreservedRunStays ==
    det.call = "_process_xml_file" =>
        \A i \in DOMAIN det.part.paras :
            LET runs == ParaRuns(det.part.paras[i])
            IN  \A n \in DOMAIN runs :
                    MatchesPreserve(runs[n].run) =>
                        /\ <<i>> \notin det.removed
                        /\ (<<i>> \o runs[n].path) \notin det.removed

\* the run went through DocxProcessor.process without an error and wrote its output
ProcessedAndWritten ==
    /\ tool = "cli" /\ cli.entry = "cli" /\ cli.args.mode = "shallow"
    /\ pc \in {"finally", "exit", "exited"}
    /\ cli.args.zip_ok /\ ~cli.proc_error /\ ~cli.args.dry_run

\* the element of a detection is gone from the written part: removed itself, or
\* inside a removed paragraph
NodeGone(d) == d.node \in cli.removed \/ <<d.node[1]>> \in cli.removed

\* C30: after a run that is not a dry run, every detection counted in removed_count
\* (every detection that is not a preserve detection) belongs to a node that is no
\* longer in the written part, removed_count is the number of those detections, and
\* preserved_count is the number of preserve detections.
C30_RemovedCountIsRemoved ==
    ProcessedAndWritten =>
        LET ds == cli.result.detections
        IN  /\ \A i \in DOMAIN ds : ds[i].content_type # "preserve" => NodeGone(ds[i])
            /\ cli.result.removed_count =
                  Cardinality({i \in DOMAIN ds : ds[i].content_type # "preserve" /\ NodeGone(ds[i])})
            /\ cli.result.preserved_count =
                  Cardinality({i \in DOMAIN ds : ds[i].content_type = "preserve"})

(***************************************************************************)
(* Properties of the remover against the report it consumed.               *)
(***************************************************************************)
\* the compatibility settings the consumed report lists
ReportedCompat ==
    {cleaner.orphan_report.compatibility_settings[i] :
        i \in DOMAIN cleaner.orphan_report.compatibility_settings}

\* the children of <w:compat> that clean() deleted
DeletedCompat ==
    Range(history.pre_parts[1].settings.compat) \ Range(parts.settings.compat)

\* C24: clean() deletes only what the report it consumed lists: the media files,
\* relationships, styles and compatibility settings it deleted are among the
\* report's findings of that category; a compatSetting named
\* overrideTableStyleFontSizeAndJustification and a flag that is not on the
\* scanner's removable list are never deleted.
C24_DeletesOnlyReported ==
    pc = "cleaned" =>
        LET pre == history.pre_parts[1]
            report == cleaner.orphan_report
        IN  /\ \A m \in Range(pre.media) \ Range(parts.media) :
                  \E i \in DOMAIN report.orphaned_media : report.orphaned_media[i].path = m.path
            /\ \A source \in DOMAIN pre.rels :
                  \A rel \in Range(pre.rels[source]) \ Range(parts.rels[source]) :
                      \E i \in DOMAIN report.orphaned_relationships :
                          /\ report.orphaned_relationships[i].rId = rel.Id
                          /\ report.orphaned_relationships[i].source_file = source
            /\ \A st \in Range(pre.styles) \ Range(parts.styles) :
                  \E i \in DOMAIN report.orphaned_styles : report.orphaned_styles[i] = st.styleId
            /\ \A c \in DeletedCompat :
                  /\ [setting |-> c.tag, name |-> c.name] \in ReportedCompat
                  /\ ~(c.tag = "compatSetting" /\ Contains(N_overrideTableStyle, c.name))
                  /\ c.tag \in removable_compat

\* the relationships of _rels/.rels in a container
RootRelationships(p) ==
    IF "_rels/.rels" \in DOMAIN p.rels THEN Range(p.rels["_rels/.rels"]) ELSE {}

\* the root relationships part declares the main document part
DeclaresMainDocument(p) ==
    \E rel \in RootRelationships(p) :
        rel.Target = F_document_xml /\ EndsWith(rel.Type, T_officeDocument)

\* C28: after a clean() that reports success the root relationships part still
\* declares the main document part: no relationship of _rels/.rels whose target
\* exists (word/document.xml does) has been deleted.
C28_RootRelationshipKept ==
    (pc = "cleaned" /\ cleaner.result.success) =>
        /\ DeclaresMainDocument(history.pre_parts[1]) => DeclaresMainDocument(parts)
        /\ \A rel \in RootRelationships(history.pre_parts[1]) :
              rel.Target = F_document_xml => rel \in RootRelationships(parts)

\* what clean() deleted: media paths, relationship ids of word/_rels/document.xml.rels,
\* style ids
DeletedMedia ==
    {m.path : m \in Range(history.pre_parts[1].media)} \ {m.path : m \in Range(parts.media)}

\* the relationship ids word/_rels/document.xml.rels declares in a container
DocumentRelIds(p) ==
    IF DocumentRels \in DOMAIN p.rels THEN {rel.Id : rel \in Range(p.rels[DocumentRels])} ELSE {}

DeletedDocumentRelIds == DocumentRelIds(history.pre_parts[1]) \ DocumentRelIds(parts)

DeletedStyles ==
    {st.styleId : st \in Range(history.pre_parts[1].styles)}
        \ {st.styleId : st \in Range(parts.styles)}

\* no relationship left in the container targets a deleted media file
NoRelationshipToDeletedMedia ==
    \A source \in DOMAIN parts.rels :
        \A rel \in Range(parts.rels[source]) :
            rel.Target \notin DeletedMedia /\ (S_word \o rel.Target) \notin DeletedMedia

\* no attribute of word/document.xml holds the id of a deleted relationship
NoReferenceToDeletedRelationship ==
    DocIdAttrValues(parts.document) \cap DeletedDocumentRelIds = {}

\* no pStyle or rStyle of word/document.xml, and no basedOn, next or link of a style
\* left in word/styles.xml, names a deleted style
NoReferenceToDeletedStyle ==
    /\ DocStyleRefs(parts.document) \cap DeletedStyles = {}
    /\ \A st \in Range(parts.styles) : StyleDeps(st) \cap DeletedStyles = {}

\* C29: after clean() the container has no dangling reference made by the removals:
\* to a deleted media file from a relationship, to a deleted relationship from a
\* content part, to a deleted style from a content part or a surviving style.
C29_NoDanglingReference ==
    pc = "cleaned" =>
        /\ NoRelationshipToDeletedMedia
        /\ NoReferenceToDeletedRelationship
        /\ NoReferenceToDeletedStyle

====
